---- MODULE Spec2Model ----
(***************************************************************************)
(* Model of the shifts ETL pipeline (src/etl/app): the paginated fetch,    *)
(* the JSON-to-relational transform, the per-page transactional write, the *)
(* KPI batch and the data reset, together with the FastAPI trigger layer.  *)
(*                                                                         *)
(* Python dicts are TLA+ functions over string keys: a key the dict does   *)
(* not hold is a key outside DOMAIN, and d['k'] on such a dict raises      *)
(* KeyError.  Dates are day numbers, timestamps are epoch milliseconds in  *)
(* the JSON and epoch seconds in the store, costs are integers in units of *)
(* 1e-5 (so that rounding to 4 decimals is not the identity).              *)
(***************************************************************************)
EXTENDS Integers, Sequences, FiniteSets, TLC

(* ------------------------------ bounds ------------------------------- *)
\* longest upstream chain of pages
MaxPages == 2
\* handler invocations (run_etl, clear_data) in one behaviour
MaxRuns == 2
\* environment faults (network, database) in one behaviour
MaxFaults == 1
\* pages one run requests over a chain that leads back into itself
MaxFetches == 4

(* --------------------------- small helpers --------------------------- *)
Has(d, k) == k \in DOMAIN d

HasAll(d, ks) == ks \subseteq DOMAIN d

RECURSIVE SumSeq(_)
SumSeq(s) == IF s = <<>> THEN 0 ELSE Head(s) + SumSeq(Tail(s))

RECURSIVE Flatten(_)
Flatten(ss) == IF ss = <<>> THEN <<>> ELSE Head(ss) \o Flatten(Tail(ss))

\* the value absent from a nullable column (Python None, SQL NULL); every
\* stored timestamp is >= 0, so -1 is free
NULL == 0 - 1

(* ------------------------ Timestamp Normalizer ----------------------- *)
\* a JSON scalar that may or may not be an integer: <<type, value>>
JInt(n) == <<"int", n>>

JNone == <<"null", 0>>

\* dict.get(key) : the value, or None when the key is absent
Get(d, k) == IF Has(d, k) THEN d[k] ELSE JNone

\* a JSON true or false: a Python bool, which is an int (True == 1)
JBool(b) == <<"bool", IF b THEN 1 ELSE 0>>

\* the last second a datetime can hold (31 December 9999), on the model's
\* scale: the timestamps of the model are small, so is the end of its calendar
datetime_max == 1000000

\* isinstance(timestamp, int) and timestamp > 0
is_positive_int(timestamp) ==
    timestamp[1] \in {"int", "bool"} /\ timestamp[2] > 0

\* parse_timestamp: datetime.fromtimestamp raises ValueError (OverflowError,
\* OSError for still larger values) past the last year of the calendar
parse_timestamp_raises(timestamp) ==
    is_positive_int(timestamp) /\ timestamp[2] \div 1000 > datetime_max

\* parse_timestamp: isinstance(timestamp, int) and timestamp > 0, then
\* datetime.fromtimestamp(timestamp // 1000); the store keeps epoch seconds
parse_timestamp(timestamp) ==
    IF is_positive_int(timestamp)
    THEN timestamp[2] \div 1000
    ELSE NULL

(* ------------------------- Record Transformer ------------------------ *)
\* round(x, 4) on a cost in units of 1e-5: nearest multiple of 10, ties to even
round4(x) ==
    LET q == x \div 10
        r == x % 10
    IN  IF r < 5 THEN 10 * q
        ELSE IF r > 5 THEN 10 * (q + 1)
        ELSE IF q % 2 = 0 THEN 10 * q ELSE 10 * (q + 1)

\* only the keys of the mapping are kept
map_record_mapped_only(record, column_mapping) ==
    [nk \in {column_mapping[k] : k \in DOMAIN record \cap DOMAIN column_mapping} |->
        record[CHOOSE k \in DOMAIN record \cap DOMAIN column_mapping :
                  column_mapping[k] = nk]]

\* map_dict_keys on one record: {column_mapping.get(key, key): value ...}
map_record(record, column_mapping) ==
    LET new(k) == IF Has(column_mapping, k) THEN column_mapping[k] ELSE k
        keys   == {new(k) : k \in DOMAIN record}
    IN  [nk \in keys |-> record[CHOOSE k \in DOMAIN record : new(k) = nk]]

map_dict_keys(data, column_mapping) ==
    [i \in DOMAIN data |-> map_record(data[i], column_mapping)]

\* the record's own entry for the parent key is kept when it has one
process_nested_records_own_key(results, record_key, parent_key) ==
    Flatten([i \in DOMAIN results |->
        [j \in DOMAIN results[i][record_key] |->
            LET record == results[i][record_key][j]
            IN  [k \in DOMAIN record \cup {parent_key} |->
                    IF k \in DOMAIN record THEN record[k] ELSE results[i]["id"]]]])

\* process_nested_records: {**record, parent_key: result['id']} for every
\* nested record of every result
process_nested_records(results, record_key, parent_key) ==
    Flatten([i \in DOMAIN results |->
        [j \in DOMAIN results[i][record_key] |->
            LET record == results[i][record_key][j]
            IN  [k \in DOMAIN record \cup {parent_key} |->
                    IF k = parent_key THEN results[i]["id"] ELSE record[k]]]])

\* the KeyError conditions of process_nested_records
nested_raises(results, record_key) ==
    \E i \in DOMAIN results :
        ~Has(results[i], record_key)
        \/ (results[i][record_key] # <<>> /\ ~Has(results[i], "id"))

\* every shift of the page is given the cost of the whole page
process_shifts_page_cost(results) ==
    [i \in DOMAIN results |->
        LET result == results[i]
        IN  [shift_id     |-> result["id"],
             shift_date   |-> result["date"],
             shift_cost   |-> round4(SumSeq([k \in DOMAIN results |->
                 SumSeq([j \in DOMAIN results[k]["allowances"] |->
                            results[k]["allowances"][j]["cost"]])
                 + SumSeq([j \in DOMAIN results[k]["award_interpretations"] |->
                            results[k]["award_interpretations"][j]["cost"]])])),
             shift_start  |-> parse_timestamp(Get(result, "start")),
             shift_finish |-> parse_timestamp(Get(result, "finish"))]]

process_shifts(results) ==
    [i \in DOMAIN results |->
        LET result == results[i]
        IN  [shift_id     |-> result["id"],
             shift_date   |-> result["date"],
             shift_cost   |-> round4(
                 SumSeq([j \in DOMAIN result["allowances"] |->
                            result["allowances"][j]["cost"]])
                 + SumSeq([j \in DOMAIN result["award_interpretations"] |->
                            result["award_interpretations"][j]["cost"]])),
             shift_start  |-> parse_timestamp(Get(result, "start")),
             shift_finish |-> parse_timestamp(Get(result, "finish"))]]

\* the exception the dict display of process_shifts raises on one result, its
\* entries being evaluated in the order written; "none" when it raises none
shift_exc(result) ==
    IF \/ ~HasAll(result, {"id", "date", "allowances", "award_interpretations"})
       \/ \E j \in DOMAIN result["allowances"] :
               ~Has(result["allowances"][j], "cost")
       \/ \E j \in DOMAIN result["award_interpretations"] :
               ~Has(result["award_interpretations"][j], "cost")
    THEN "KeyError"
    ELSE IF \/ parse_timestamp_raises(Get(result, "start"))
            \/ parse_timestamp_raises(Get(result, "finish"))
    THEN "ValueError"
    ELSE "none"

shifts_raises(results) ==
    \E i \in DOMAIN results : shift_exc(results[i]) # "none"

\* the exception of the first result that raises one
shifts_exc(results) ==
    shift_exc(results[CHOOSE i \in DOMAIN results :
                        /\ shift_exc(results[i]) # "none"
                        /\ \A k \in 1..(i - 1) : shift_exc(results[k]) = "none"])

process_breaks(results) ==
    Flatten([i \in DOMAIN results |->
        [j \in DOMAIN results[i]["breaks"] |->
            LET break_record == results[i]["breaks"][j]
            IN  [break_id     |-> break_record["id"],
                 shift_id     |-> results[i]["id"],
                 break_start  |-> parse_timestamp(Get(break_record, "start")),
                 break_finish |-> parse_timestamp(Get(break_record, "finish")),
                 is_paid      |-> break_record["paid"]]]])

\* the exception the dict display of process_breaks raises on one break
break_exc(result, break_record) ==
    IF ~Has(break_record, "id") \/ ~Has(result, "id") THEN "KeyError"
    ELSE IF \/ parse_timestamp_raises(Get(break_record, "start"))
            \/ parse_timestamp_raises(Get(break_record, "finish"))
    THEN "ValueError"
    ELSE IF ~Has(break_record, "paid") THEN "KeyError"
    ELSE "none"

\* the exception process_breaks raises on one result
result_breaks_exc(result) ==
    IF ~Has(result, "breaks") THEN "KeyError"
    ELSE LET bad == {j \in DOMAIN result["breaks"] :
                        break_exc(result, result["breaks"][j]) # "none"}
         IN  IF bad = {} THEN "none"
             ELSE break_exc(result, result["breaks"][CHOOSE j \in bad :
                                                       \A k \in bad : j <= k])

breaks_raises(results) ==
    \E i \in DOMAIN results : result_breaks_exc(results[i]) # "none"

breaks_exc(results) ==
    result_breaks_exc(results[CHOOSE i \in DOMAIN results :
                        /\ result_breaks_exc(results[i]) # "none"
                        /\ \A k \in 1..(i - 1) : result_breaks_exc(results[k]) = "none"])

AllowanceMapping ==
    [id |-> "allowance_id", value |-> "allowance_value", cost |-> "allowance_cost"]

AwardMapping ==
    [id |-> "award_id", date |-> "award_date", units |-> "award_units",
     cost |-> "award_cost"]

process_allowances(results) ==
    map_dict_keys(process_nested_records(results, "allowances", "shift_id"),
                  AllowanceMapping)

process_award_interpretations(results) ==
    map_dict_keys(process_nested_records(results, "award_interpretations", "shift_id"),
                  AwardMapping)

\* the four record sets held by a processor object
NoRecords ==
    [shifts |-> <<>>, breaks |-> <<>>, allowances |-> <<>>,
     award_interpretations |-> <<>>]

\* process_json: TRUE when it raises KeyError
process_json_raises(json_data) ==
    \/ ~Has(json_data, "results")
    \/ shifts_raises(json_data["results"])
    \/ breaks_raises(json_data["results"])
    \/ nested_raises(json_data["results"], "allowances")
    \/ nested_raises(json_data["results"], "award_interpretations")

\* process_json: the exception it raises, "none" when it raises none
process_json_exc(json_data) ==
    IF ~Has(json_data, "results") THEN "KeyError"
    ELSE LET results == json_data["results"]
         IN  IF shifts_raises(results) THEN shifts_exc(results)
             ELSE IF breaks_raises(results) THEN breaks_exc(results)
             ELSE IF \/ nested_raises(results, "allowances")
                     \/ nested_raises(results, "award_interpretations")
             THEN "KeyError"
             ELSE "none"

\* the four fields are extended, not assigned: the records of the pages the
\* processor has seen before stay in them
process_json_extending(old, json_data) ==
    IF process_json_raises(json_data) THEN old
    ELSE LET results == json_data["results"]
         IN  [shifts     |-> old.shifts \o process_shifts(results),
              breaks     |-> old.breaks \o process_breaks(results),
              allowances |-> old.allowances \o process_allowances(results),
              award_interpretations |->
                 old.award_interpretations \o process_award_interpretations(results)]

\* process_json: the processor's record sets afterwards.  The four fields are
\* assigned one after the other, so a KeyError in a later step leaves the
\* earlier fields already replaced.
process_json(old, json_data) ==
    IF ~Has(json_data, "results") THEN old
    ELSE LET results == json_data["results"]
         IN  IF shifts_raises(results) THEN old
             ELSE LET r1 == [old EXCEPT !.shifts = process_shifts(results)]
                  IN  IF breaks_raises(results) THEN r1
                      ELSE LET r2 == [r1 EXCEPT !.breaks = process_breaks(results)]
                           IN  IF nested_raises(results, "allowances") THEN r2
                               ELSE LET r3 == [r2 EXCEPT !.allowances =
                                                  process_allowances(results)]
                                    IN  IF nested_raises(results, "award_interpretations")
                                        THEN r3
                                        ELSE [r3 EXCEPT !.award_interpretations =
                                                  process_award_interpretations(results)]

(* ----------------------------- upstream ------------------------------ *)
\* shift objects as the upstream API serves them
ShiftA ==
    [id |-> 1, date |-> 19, start |-> JInt(60000), finish |-> JInt(3660000),
     breaks |-> << [id |-> 1, start |-> JInt(120000), finish |-> JInt(720500),
                    paid |-> FALSE] >>,
     allowances |-> << [id |-> 1, value |-> 1, cost |-> 250007],
                       [id |-> 2, value |-> 1, cost |-> 100008] >>,
     award_interpretations |-> <<>>]

\* no start timestamp, an old date, two breaks; its second break and its second
\* award carry a shift_id key of their own, that of another shift
ShiftB ==
    [id |-> 2, date |-> 5, finish |-> JInt(7200000),
     breaks |-> << [id |-> 2, start |-> JInt(60000), finish |-> JInt(1260000),
                    paid |-> TRUE],
                   [id |-> 3, start |-> JInt(3000000), finish |-> JInt(3600000),
                    paid |-> FALSE, shift_id |-> 4] >>,
     allowances |-> <<>>,
     award_interpretations |-> << [id |-> 1, date |-> 5, units |-> 1, cost |-> 628000],
                                  [id |-> 2, date |-> 5, units |-> 2, cost |-> 559000,
                                   shift_id |-> 4] >>]

\* its break carries the id of ShiftA's break; a rostered shift, dated
\* tomorrow; its allowance has a key the store has no column for
ShiftC ==
    [id |-> 3, date |-> 21, start |-> JInt(1000), finish |-> JInt(1801000),
     breaks |-> << [id |-> 1, start |-> JInt(2000), finish |-> JInt(62000),
                    paid |-> TRUE] >>,
     allowances |-> << [id |-> 3, value |-> 2, cost |-> 70000, name |-> 9] >>,
     award_interpretations |-> <<>>]

\* a shift with no nested record at all
ShiftD ==
    [id |-> 4, date |-> 18, start |-> JInt(5000), finish |-> JInt(905000),
     breaks |-> <<>>, allowances |-> <<>>, award_interpretations |-> <<>>]

\* a shift object without its breaks array
ShiftNoBreaks ==
    [id |-> 5, date |-> 20, start |-> JInt(1000), finish |-> JInt(2000),
     allowances |-> <<>>, award_interpretations |-> <<>>]

\* an allowance without the value key
ShiftBadAllowance ==
    [id |-> 6, date |-> 20, start |-> JInt(1000), finish |-> JInt(2000),
     breaks |-> << [id |-> 6, start |-> JInt(1000), finish |-> JInt(2000),
                    paid |-> FALSE] >>,
     allowances |-> << [id |-> 6, cost |-> 10] >>,
     award_interpretations |-> <<>>]

\* a start timestamp past the last year of the calendar (as epoch microseconds
\* sent for milliseconds are), and true for the finish timestamp
ShiftFarFuture ==
    [id |-> 7, date |-> 20, start |-> JInt(2000000000), finish |-> JBool(TRUE),
     breaks |-> <<>>, allowances |-> <<>>, award_interpretations |-> <<>>]

\* the page bodies an upstream chain is made of: four that can be written
\* (unless an id is already stored), then six that never can, the fourth of
\* them for want of a links object, the last the empty JSON object
Catalog ==
    << [results |-> <<ShiftA>>, links |-> <<>>],
       [results |-> <<ShiftB, ShiftD>>, links |-> <<>>],
       [results |-> <<ShiftC>>, links |-> <<>>],
       [results |-> <<>>, links |-> <<>>],
       [results |-> <<ShiftBadAllowance>>, links |-> <<>>],
       [results |-> <<ShiftNoBreaks>>, links |-> <<>>],
       [links |-> <<>>],
       [results |-> <<ShiftD>>],
       [results |-> <<ShiftFarFuture>>, links |-> <<>>],
       <<>> >>

\* the envelope of the page at position i of a chain of n pages: the links
\* object of every page but the last holds the next link
Envelope(body, i, n) ==
    [k \in DOMAIN body |->
        IF k = "links" THEN (IF i < n THEN [base |-> 0, next |-> i + 1]
                             ELSE [base |-> 0])
        ELSE body[k]]

\* the bodies every run fails on
Unwritable == {5, 6, 7, 8, 9, 10}

\* a run never gets past a page it cannot write, so the pages behind such a
\* page are never requested: the chains hold one in the last position only
Chains ==
    UNION {{c \in [1..n -> DOMAIN Catalog] : \A i \in 1..(n - 1) : c[i] \notin Unwritable} :
              n \in 1..MaxPages}

MakeApi(chain) ==
    [i \in DOMAIN chain |-> Envelope(Catalog[chain[i]], i, Len(chain))]

\* a chain whose last page links back to the page at position back
MakeCyclicApi(chain, back) ==
    [i \in DOMAIN chain |->
        IF i = Len(chain) /\ back > 0
        THEN [Catalog[chain[i]] EXCEPT !["links"] = [next |-> back]]
        ELSE Envelope(Catalog[chain[i]], i, Len(chain))]

(* ------------------------------- store ------------------------------- *)
\* insert columns of each table, as process_and_insert_data passes them
Columns ==
    [shifts |-> {"shift_id", "shift_date", "shift_start", "shift_finish", "shift_cost"},
     breaks |-> {"break_id", "shift_id", "break_start", "break_finish", "is_paid"},
     allowances |-> {"allowance_id", "shift_id", "allowance_value", "allowance_cost"},
     award_interpretations |->
        {"award_id", "shift_id", "award_date", "award_units", "award_cost"}]

\* schema: the primary key of each table
PrimaryKey ==
    [shifts |-> "shift_id", breaks |-> "break_id", allowances |-> "allowance_id",
     award_interpretations |-> "award_id"]

EmptyDb ==
    [shifts |-> {}, breaks |-> {}, allowances |-> {}, award_interpretations |-> {},
     kpis |-> {}]

NoPending ==
    [shifts |-> {}, breaks |-> {}, allowances |-> {}, award_interpretations |-> {}]

IngestionTables == DOMAIN NoPending

\* the tuple insert_data builds from a record, stored by transaction xid
Row(record, columns, xid) ==
    [c \in columns \cup {"xmin"} |-> IF c = "xmin" THEN xid ELSE record[c]]

Rows(data, columns, xid) == {Row(data[i], columns, xid) : i \in DOMAIN data}

(* --------------------------- KPI Aggregator -------------------------- *)
\* a numeric SQL value as a fraction; the SQL NULL has denominator 0
Num(n, d) == [num |-> n, den |-> d]

SqlNull == Num(0, 0)

COALESCE(v, default) == IF v = SqlNull THEN default ELSE v

RECURSIVE SumDiff(_, _, _)
SumDiff(rows, hi, lo) ==
    IF rows = {} THEN 0
    ELSE LET r == CHOOSE x \in rows : TRUE
         IN  (r[hi] - r[lo]) + SumDiff(rows \ {r}, hi, lo)

RECURSIVE SumCol(_, _)
SumCol(rows, col) ==
    IF rows = {} THEN 0
    ELSE LET r == CHOOSE x \in rows : TRUE
         IN  r[col] + SumCol(rows \ {r}, col)

Max(S) == CHOOSE m \in S : \A x \in S : x <= m

Min(S) == CHOOSE m \in S : \A x \in S : m <= x

\* COALESCE(EXTRACT(EPOCH FROM AVG(break_finish - break_start)) / 60, 0)
mean_break_length_in_minutes(d) ==
    LET timed == {b \in d.breaks : b.break_start # NULL /\ b.break_finish # NULL}
        avg   == IF timed = {} THEN SqlNull
                 ELSE Num(SumDiff(timed, "break_finish", "break_start"),
                          60 * Cardinality(timed))
    IN  COALESCE(avg, Num(0, 1))

\* COALESCE(AVG(shift_cost), 0)
mean_shift_cost(d) ==
    LET avg == IF d.shifts = {} THEN SqlNull
               ELSE Num(SumCol(d.shifts, "shift_cost"), Cardinality(d.shifts))
    IN  COALESCE(avg, Num(0, 1))

\* COALESCE(MAX(allowance_cost), 0) over allowances joined to their shift,
\* WHERE shift_date >= CURRENT_DATE - INTERVAL '14 days'
max_allowance_cost_14d(d, current_date) ==
    LET costs == {a.allowance_cost : a \in
                    {a \in d.allowances :
                        \E s \in d.shifts : /\ s.shift_id = a.shift_id
                                            /\ s.shift_date >= current_date - 14}}
        mx    == IF costs = {} THEN SqlNull ELSE Num(Max(costs), 1)
    IN  COALESCE(mx, Num(0, 1))

\* the rows of shifts LEFT JOIN breaks: <<shift_id, break_id, shift_date>>
grps_rows(d) ==
    {<<sb[1].shift_id, sb[2].break_id, sb[1].shift_date>> :
        sb \in {sb \in d.shifts \X d.breaks : sb[2].shift_id = sb[1].shift_id}}
    \cup {<<s.shift_id, NULL, s.shift_date>> :
        s \in {s \in d.shifts : ~\E b \in d.breaks : b.shift_id = s.shift_id}}

\* SUM(CASE WHEN break_id IS NULL THEN 0 ELSE 1 END) OVER (ORDER BY shift_date):
\* the default frame runs from the first row to the last peer of the row
grp(rows, row) ==
    Cardinality({r \in rows : r[2] # NULL /\ r[3] <= row[3]})

\* SELECT COALESCE(COUNT(*) - CASE WHEN grp = 0 THEN 0 ELSE 1 END, 0) AS cnt
\* FROM grps GROUP BY grp ORDER BY cnt DESC LIMIT 1, as a scalar subquery: NULL
\* when it returns no row
max_break_free_shift_period_in_days(d) ==
    LET rows == grps_rows(d)
        cnt(g) == Cardinality({r \in rows : grp(rows, r) = g})
                    - (IF g = 0 THEN 0 ELSE 1)
        cnts == {cnt(grp(rows, r)) : r \in rows}
    IN  IF rows = {} THEN SqlNull ELSE Num(Max(cnts), 1)

\* COALESCE(MIN(EXTRACT(EPOCH FROM (shift_finish - shift_start)) / 3600), 0)
min_shift_length_in_hours(d) ==
    LET lens == {s.shift_finish - s.shift_start : s \in
                    {s \in d.shifts : s.shift_start # NULL /\ s.shift_finish # NULL}}
        mn   == IF lens = {} THEN SqlNull ELSE Num(Min(lens), 3600)
    IN  COALESCE(mn, Num(0, 1))

\* the count is taken over all breaks
total_number_of_breaks(d) == Num(Cardinality(d.breaks), 1)

\* COALESCE(COUNT(*), 0) FROM breaks WHERE is_paid = true
total_number_of_paid_breaks(d) ==
    COALESCE(Num(Cardinality({b \in d.breaks : b.is_paid}), 1), Num(0, 1))

KpiNames ==
    {"mean_break_length_in_minutes", "mean_shift_cost", "max_allowance_cost_14d",
     "max_break_free_shift_period_in_days", "min_shift_length_in_hours",
     "total_number_of_paid_breaks"}

kpi_value(name, d, current_date) ==
    CASE name = "mean_break_length_in_minutes" -> mean_break_length_in_minutes(d)
      [] name = "mean_shift_cost" -> mean_shift_cost(d)
      [] name = "max_allowance_cost_14d" -> max_allowance_cost_14d(d, current_date)
      [] name = "max_break_free_shift_period_in_days" ->
            max_break_free_shift_period_in_days(d)
      [] name = "min_shift_length_in_hours" -> min_shift_length_in_hours(d)
      [] name = "total_number_of_paid_breaks" -> total_number_of_paid_breaks(d)

\* the six rows of the INSERT INTO kpis statement
kpi_rows(d, current_date, xid) ==
    {[kpi_name |-> n, kpi_date |-> current_date,
      kpi_value |-> kpi_value(n, d, current_date), xmin |-> xid] : n \in KpiNames}

\* the server processes that can run a handler
Procs == {"w1", "w2"}

VARIABLES
    api,      \* the upstream chain: url -> page body
    today,    \* CURRENT_DATE
    db,       \* the committed rows of the five tables
    xact,     \* transaction log: xid -> [url, state]
    pc,       \* control point of each worker
    self,     \* the worker's ShiftDataProcessor object
    conn,     \* the worker's open connection: its xid and uncommitted rows
    resp,     \* HTTP status of the worker's last response
    hist,     \* history of the worker's current handler invocation
    faults,   \* environment faults so far
    runs      \* handler invocations so far

vars == <<api, today, db, xact, pc, self, conn, resp, hist, faults, runs>>

NoConn == [open |-> FALSE, xid |-> 0, pending |-> NoPending]

NewProcessor ==
    [url |-> 0, json_data |-> <<>>, records |-> NoRecords]

NoHist ==
    [handler |-> "none", fetched |-> <<>>, processed |-> <<>>, committed |-> <<>>,
     xid |-> 0, stmts |-> 0, kpi_calls |-> 0, kpi_xid |-> 0, exc |-> "none", at |-> "none",
     db0 |-> EmptyDb, snap |-> EmptyDb, prev |-> "none", got |-> "none"]

Init ==
    /\ \E chain \in Chains : api = MakeApi(chain)
    /\ today = 20
    /\ db = EmptyDb
    /\ xact = <<>>
    /\ pc = [p \in Procs |-> "idle"]
    /\ self = [p \in Procs |-> NewProcessor]
    /\ conn = [p \in Procs |-> NoConn]
    /\ resp = [p \in Procs |-> 0]
    /\ hist = [p \in Procs |-> NoHist]
    /\ faults = 0
    /\ runs = 0

(* ------------------------- exceptions, faults ------------------------ *)
\* the environment (network, database server) fails once more
Fault ==
    /\ faults < MaxFaults
    /\ faults' = faults + 1

\* the loop is left by break instead of raise: the KPIs are computed anyway
RaiseBreak(p, exc, at) ==
    /\ pc' = [pc EXCEPT ![p] = IF hist[p].handler = "run_etl" THEN "compute_kpis"
                               ELSE "raised"]
    /\ hist' = [hist EXCEPT ![p].exc = exc, ![p].at = at]

\* an exception leaves process_all_pages or clear_data
Raise(p, exc, at) ==
    /\ pc' = [pc EXCEPT ![p] = "raised"]
    /\ hist' = [hist EXCEPT ![p].exc = exc, ![p].at = at]

\* Rollback without the raise of insert_data: a failed insert is rolled back
\* and logged, and the remaining inserts and the commit go on
RollbackNoRaise(p, exc, at) ==
    /\ db' = db
    /\ IF at \in {"insert_shifts", "insert_breaks", "insert_allowances"}
       THEN /\ conn' = [conn EXCEPT ![p].pending = [t \in DOMAIN @ |-> {}]]
            /\ pc' = [pc EXCEPT ![p] =
                        CASE at = "insert_shifts" -> "insert_breaks"
                          [] at = "insert_breaks" -> "insert_allowances"
                          [] OTHER -> "insert_award_interpretations"]
            /\ UNCHANGED <<xact, hist>>
       ELSE /\ conn' = [conn EXCEPT ![p] = [open |-> FALSE, xid |-> 0,
                                            pending |-> [t \in DOMAIN @.pending |-> {}]]]
            /\ xact' = [xact EXCEPT ![conn[p].xid].state = "aborted"]
            /\ pc' = [pc EXCEPT ![p] = "raised"]
            /\ hist' = [hist EXCEPT ![p].exc = exc, ![p].at = at]

\* one transaction for the whole run: the rollback also undoes the pages the
\* run has written before
RollbackRun(p, exc, at) ==
    /\ db' = [t \in DOMAIN db |-> IF t = "kpis" THEN db[t] ELSE hist[p].db0[t]]
    /\ conn' = [conn EXCEPT ![p] = [open |-> FALSE, xid |-> 0,
                                    pending |-> [t \in DOMAIN @.pending |-> {}]]]
    /\ xact' = [xact EXCEPT ![conn[p].xid].state = "aborted"]
    /\ pc' = [pc EXCEPT ![p] = "raised"]
    /\ hist' = [hist EXCEPT ![p].exc = exc, ![p].at = at]

\* the handler of process_and_insert_data rolls back and logs without the raise:
\* the loop goes on to the next link as after a page that was written
RollbackSwallowed(p, exc, at) ==
    /\ db' = db
    /\ conn' = [conn EXCEPT ![p] = NoConn]
    /\ xact' = [xact EXCEPT ![conn[p].xid].state = "aborted"]
    /\ pc' = [pc EXCEPT ![p] = "get_next_url"]
    /\ hist' = hist

\* conn.rollback() and conn.close() of process_and_insert_data, then raise:
\* the uncommitted rows of the page are dropped, the store is left alone
Rollback(p, exc, at) ==
    /\ db' = db
    /\ conn' = [conn EXCEPT ![p] = NoConn]
    /\ xact' = [xact EXCEPT ![conn[p].xid].state = "aborted"]
    /\ Raise(p, exc, at)

BeginXact(url, kind) == Append(xact, [url |-> url, kind |-> kind, state |-> "in_progress"])

(* --------------------------- trigger layer --------------------------- *)
\* POST /run-etl: a new ShiftDataProcessor, then process_all_pages
StartRunEtl(p) ==
    /\ pc[p] = "idle"
    /\ runs < MaxRuns
    /\ runs' = runs + 1
    /\ self' = [self EXCEPT ![p] = [NewProcessor EXCEPT !.url = 1]]
    /\ pc' = [pc EXCEPT ![p] = "fetch_data"]
    /\ hist' = [hist EXCEPT ![p] = [NoHist EXCEPT !.handler = "run_etl", !.db0 = db,
                                                  !.prev = hist[p].handler]]
    /\ resp' = [resp EXCEPT ![p] = 0]
    /\ UNCHANGED <<api, today, db, xact, conn, faults>>

\* POST /clear-data: a new ShiftDataProcessor, then clear_data
StartClearData(p) ==
    /\ pc[p] = "idle"
    /\ runs < MaxRuns
    /\ runs' = runs + 1
    /\ self' = [self EXCEPT ![p] = NewProcessor]
    /\ pc' = [pc EXCEPT ![p] = "clear_data"]
    /\ hist' = [hist EXCEPT ![p] = [NoHist EXCEPT !.handler = "clear_data", !.db0 = db,
                                                  !.prev = hist[p].handler]]
    /\ resp' = [resp EXCEPT ![p] = 0]
    /\ UNCHANGED <<api, today, db, xact, conn, faults>>

\* the handler catches the exception, logs it and answers as for success
status_code_logged(handler, exc) == 200

\* the status the handler answers with: 200, or the HTTPException's code
status_code(handler, exc) ==
    IF exc = "none" THEN 200
    ELSE IF handler = "run_etl" /\ exc = "ValueError" THEN 400
    ELSE 500

Respond(p) ==
    /\ pc[p] \in {"returned", "raised"}
    /\ resp' = [resp EXCEPT ![p] = status_code(hist[p].handler, hist[p].exc)]
    /\ pc' = [pc EXCEPT ![p] = "idle"]
    /\ self' = [self EXCEPT ![p] = NewProcessor]
    /\ UNCHANGED <<api, today, db, xact, conn, hist, faults, runs>>

(* ---------------------------- Page Fetcher --------------------------- *)
\* Python truthiness of a parsed JSON body
Truthy(json_data) == DOMAIN json_data # {}

\* the loop is left by break when the fetch failed
FetchFailedBreak(p, h) ==
    /\ pc' = [pc EXCEPT ![p] = "compute_kpis"]
    /\ hist' = [hist EXCEPT ![p] = [h EXCEPT !.exc = "ValueError", !.at = "fetch_data"]]
    /\ UNCHANGED self

\* process_all_pages: raise ValueError("Failed to fetch data for the page.")
FetchFailed(p, h) ==
    /\ pc' = [pc EXCEPT ![p] = "raised"]
    /\ hist' = [hist EXCEPT ![p] = [h EXCEPT !.exc = "ValueError", !.at = "fetch_data"]]
    /\ UNCHANGED self

\* fetch_data and the test of its result in process_all_pages
FetchData(p) ==
    /\ pc[p] = "fetch_data"
    /\ LET url == self[p].url
           h   == [hist[p] EXCEPT !.fetched = Append(@, url)]
       IN  \/ \* requests.get raises, a non-2xx status, or a body that is no JSON:
              \* fetch_data returns None
              /\ Fault
              /\ FetchFailed(p, [h EXCEPT !.got = "failed"])
           \/ \* fetch_data returns response.json()
              /\ UNCHANGED faults
              /\ IF url \in DOMAIN api /\ Truthy(api[url])
                 THEN /\ self' = [self EXCEPT ![p].json_data = api[url]]
                      /\ pc' = [pc EXCEPT ![p] = "connect"]
                      /\ hist' = [hist EXCEPT ![p] =
                                    [h EXCEPT !.processed = Append(@, url), !.stmts = 0,
                                              !.got = "json"]]
                 ELSE FetchFailed(p, [h EXCEPT !.got = "json"])
    /\ UNCHANGED <<api, today, db, xact, conn, resp, runs>>

(* ------------------------ Transactional Writer ----------------------- *)
\* process_and_insert_data: psycopg2.connect, autocommit off
Connect(p) ==
    /\ pc[p] = "connect"
    /\ \/ \* connect raises; the handler then reads the unbound name conn
          /\ Fault
          /\ Raise(p, "UnboundLocalError", "connect")
          /\ UNCHANGED <<conn, xact>>
       \/ /\ UNCHANGED faults
          /\ xact' = BeginXact(self[p].url, "page")
          /\ conn' = [conn EXCEPT ![p] =
                        [open |-> TRUE, xid |-> Len(xact) + 1, pending |-> NoPending]]
          /\ pc' = [pc EXCEPT ![p] = "process_json"]
          /\ hist' = [hist EXCEPT ![p].snap = db, ![p].xid = Len(xact) + 1]
    /\ UNCHANGED <<api, today, db, self, resp, runs>>

\* the page is transformed only when the fields of the processor are empty:
\* record sets left by an earlier page are written once more
ProcessJsonCached(p) ==
    /\ pc[p] = "process_json"
    /\ self' = [self EXCEPT ![p].records =
                  IF @ = NoRecords THEN process_json(@, self[p].json_data) ELSE @]
    /\ IF process_json_raises(self[p].json_data)
       THEN Rollback(p, process_json_exc(self[p].json_data), "process_json")
       ELSE /\ pc' = [pc EXCEPT ![p] = "insert_shifts"]
            /\ UNCHANGED <<db, conn, xact, hist>>
    /\ UNCHANGED <<api, today, resp, faults, runs>>

\* process_and_insert_data: self.process_json(json_data)
ProcessJson(p) ==
    /\ pc[p] = "process_json"
    /\ self' = [self EXCEPT ![p].records = process_json(@, self[p].json_data)]
    /\ IF process_json_raises(self[p].json_data)
       THEN Rollback(p, process_json_exc(self[p].json_data), "process_json")
       ELSE /\ pc' = [pc EXCEPT ![p] = "insert_shifts"]
            /\ UNCHANGED <<db, conn, xact, hist>>
    /\ UNCHANGED <<api, today, resp, faults, runs>>

\* the children are inserted before the shifts they belong to
InsertAtChildrenFirst ==
    [insert_shifts |-> [table |-> "breaks", next |-> "insert_breaks"],
     insert_breaks |-> [table |-> "allowances", next |-> "insert_allowances"],
     insert_allowances |->
        [table |-> "award_interpretations", next |-> "insert_award_interpretations"],
     insert_award_interpretations |-> [table |-> "shifts", next |-> "commit"]]

\* the insert that runs at a control point, and the control point after it
InsertAt ==
    [insert_shifts |-> [table |-> "shifts", next |-> "insert_breaks"],
     insert_breaks |-> [table |-> "breaks", next |-> "insert_allowances"],
     insert_allowances |->
        [table |-> "allowances", next |-> "insert_award_interpretations"],
     insert_award_interpretations |->
        [table |-> "award_interpretations", next |-> "commit"]]

\* the rows a statement of transaction p can see
Visible(p, table) == db[table] \cup conn[p].pending[table]

\* the INSERT violates the primary key or the foreign key to shifts
Conflict(p, table, data) ==
    LET key == PrimaryKey[table]
    IN  \/ \E i, j \in DOMAIN data : i # j /\ data[i][key] = data[j][key]
        \/ \E i \in DOMAIN data : \E r \in Visible(p, table) : r[key] = data[i][key]
        \/ /\ table # "shifts"
           /\ \E i \in DOMAIN data :
                ~\E s \in Visible(p, "shifts") : s.shift_id = data[i].shift_id

\* the connection commits every statement by itself
execute_values_autocommit(p, table, rows) ==
    /\ db' = [db EXCEPT ![table] = @ \cup rows]
    /\ conn' = conn

\* execute_values on a connection with autocommit off: the rows are the
\* transaction's own until it commits
execute_values(p, table, rows) ==
    /\ conn' = [conn EXCEPT ![p].pending[table] = @ \cup rows]
    /\ db' = db

\* the INSERT waits: an open transaction of another process has inserted a row
\* with one of its keys and has neither committed nor rolled back
Blocked(p, table, data) ==
    \E q \in Procs \ {p} : \E r \in conn[q].pending[table] :
        \E i \in DOMAIN data :
            /\ Has(data[i], PrimaryKey[table])
            /\ data[i][PrimaryKey[table]] = r[PrimaryKey[table]]

\* the INSERT is written with ON CONFLICT DO NOTHING: the records whose key
\* is stored already are skipped and the statement succeeds
InsertDataOnConflictDoNothing(p) ==
    /\ pc[p] \in DOMAIN InsertAt
    /\ ~Blocked(p, InsertAt[pc[p]].table, self[p].records[InsertAt[pc[p]].table])
    /\ LET table   == InsertAt[pc[p]].table
           columns == Columns[table]
           data    == self[p].records[table]
           key     == PrimaryKey[table]
       IN  IF \E i \in DOMAIN data : ~HasAll(data[i], columns)
           THEN /\ Rollback(p, "KeyError", pc[p])
                /\ UNCHANGED faults
           ELSE IF data = <<>>
           THEN /\ pc' = [pc EXCEPT ![p] = InsertAt[pc[p]].next]
                /\ UNCHANGED <<db, conn, xact, hist, faults>>
           ELSE \/ /\ Fault
                   /\ Rollback(p, "OperationalError", pc[p])
                \/ /\ UNCHANGED faults
                   /\ execute_values(p, table,
                         {r \in Rows(data, columns, conn[p].xid) :
                             \A s \in Visible(p, table) : s[key] # r[key]})
                   /\ pc' = [pc EXCEPT ![p] = InsertAt[pc[p]].next]
                   /\ hist' = [hist EXCEPT ![p].stmts = @ + 1]
                   /\ UNCHANGED xact
    /\ UNCHANGED <<api, today, self, resp, runs>>

\* insert_data(conn, table_name, columns, data)
InsertData(p) ==
    /\ pc[p] \in DOMAIN InsertAt
    /\ ~Blocked(p, InsertAt[pc[p]].table, self[p].records[InsertAt[pc[p]].table])
    /\ LET table   == InsertAt[pc[p]].table
           columns == Columns[table]
           data    == self[p].records[table]
       IN  IF \E i \in DOMAIN data : ~HasAll(data[i], columns)
           THEN \* building data_tuples raises KeyError
                /\ Rollback(p, "KeyError", pc[p])
                /\ UNCHANGED faults
           ELSE IF data = <<>>
           THEN \* execute_values sends no statement for an empty list
                /\ pc' = [pc EXCEPT ![p] = InsertAt[pc[p]].next]
                /\ UNCHANGED <<db, conn, xact, hist, faults>>
           ELSE \/ \* the server or the connection fails
                   /\ Fault
                   /\ Rollback(p, "OperationalError", pc[p])
                \/ /\ UNCHANGED faults
                   /\ IF Conflict(p, table, data)
                      THEN Rollback(p, "IntegrityError", pc[p])
                      ELSE /\ execute_values(p, table, Rows(data, columns, conn[p].xid))
                           /\ pc' = [pc EXCEPT ![p] = InsertAt[pc[p]].next]
                           /\ hist' = [hist EXCEPT ![p].stmts = @ + 1]
                           /\ UNCHANGED xact
    /\ UNCHANGED <<api, today, self, resp, runs>>

\* the connection is closed without the commit: the rows of the page are lost
\* and the run goes on to the next page
CommitDropped(p) ==
    /\ pc[p] = "commit"
    /\ \/ /\ Fault
          /\ Rollback(p, "OperationalError", "commit")
       \/ /\ UNCHANGED faults
          /\ db' = db
          /\ xact' = [xact EXCEPT ![conn[p].xid].state = "committed"]
          /\ conn' = [conn EXCEPT ![p] = NoConn]
          /\ hist' = [hist EXCEPT ![p].committed = Append(@, conn[p].xid)]
          /\ pc' = [pc EXCEPT ![p] = "get_next_url"]
    /\ UNCHANGED <<api, today, self, resp, runs>>

\* the commit makes the page the whole content of the four tables, as a load
\* that replaces what was loaded before would
CommitReplacing(p) ==
    /\ pc[p] = "commit"
    /\ \/ /\ Fault
          /\ Rollback(p, "OperationalError", "commit")
       \/ /\ UNCHANGED faults
          /\ db' = [t \in DOMAIN db |->
                      IF t \in DOMAIN NoPending THEN conn[p].pending[t] ELSE db[t]]
          /\ xact' = [xact EXCEPT ![conn[p].xid].state = "committed"]
          /\ conn' = [conn EXCEPT ![p] = NoConn]
          /\ hist' = [hist EXCEPT ![p].committed = Append(@, conn[p].xid)]
          /\ pc' = [pc EXCEPT ![p] = "get_next_url"]
    /\ UNCHANGED <<api, today, self, resp, runs>>

\* conn.commit() of process_and_insert_data
Commit(p) ==
    /\ pc[p] = "commit"
    /\ \/ /\ Fault
          /\ Rollback(p, "OperationalError", "commit")
       \/ /\ UNCHANGED faults
          /\ db' = [t \in DOMAIN db |->
                      IF t \in DOMAIN NoPending THEN db[t] \cup conn[p].pending[t]
                      ELSE db[t]]
          /\ xact' = [xact EXCEPT ![conn[p].xid].state = "committed"]
          /\ conn' = [conn EXCEPT ![p] = NoConn]
          /\ hist' = [hist EXCEPT ![p].committed = Append(@, conn[p].xid)]
          /\ pc' = [pc EXCEPT ![p] = "get_next_url"]
    /\ UNCHANGED <<api, today, self, resp, runs>>

(* -------------------------- Pagination Driver ------------------------ *)
\* the next link is never followed: the loop ends after the first page
GetNextUrlNever(p) ==
    /\ pc[p] = "get_next_url"
    /\ IF ~Has(self[p].json_data, "links")
       THEN /\ pc' = [pc EXCEPT ![p] = "raised"]
            /\ hist' = [hist EXCEPT ![p].exc = "KeyError", ![p].at = "get_next_url"]
       ELSE /\ pc' = [pc EXCEPT ![p] = "compute_kpis"]
            /\ UNCHANGED hist
    /\ UNCHANGED <<api, today, db, xact, self, conn, resp, faults, runs>>

\* the driver remembers the URLs it has requested and ends the loop at a next
\* link that leads to one of them
GetNextUrlOnce(p) ==
    /\ pc[p] = "get_next_url"
    /\ LET json_data == self[p].json_data
       IN  IF ~Has(json_data, "links")
           THEN /\ Raise(p, "KeyError", "get_next_url")
                /\ UNCHANGED self
           ELSE IF /\ Has(json_data["links"], "next")
                   /\ \A i \in DOMAIN hist[p].fetched :
                         hist[p].fetched[i] # json_data["links"]["next"]
           THEN /\ self' = [self EXCEPT ![p].url = json_data["links"]["next"]]
                /\ pc' = [pc EXCEPT ![p] = "fetch_data"]
                /\ UNCHANGED hist
           ELSE /\ pc' = [pc EXCEPT ![p] = "compute_kpis"]
                /\ UNCHANGED <<self, hist>>
    /\ UNCHANGED <<api, today, db, xact, conn, resp, faults, runs>>

\* get_next_url and the loop test of process_all_pages
GetNextUrl(p) ==
    /\ pc[p] = "get_next_url"
    /\ LET json_data == self[p].json_data
       IN  IF ~Has(json_data, "links")
           THEN /\ Raise(p, "KeyError", "get_next_url")
                /\ UNCHANGED self
           ELSE IF Has(json_data["links"], "next")
           THEN /\ self' = [self EXCEPT ![p].url = json_data["links"]["next"]]
                /\ pc' = [pc EXCEPT ![p] = "fetch_data"]
                /\ UNCHANGED hist
           ELSE /\ pc' = [pc EXCEPT ![p] = "compute_kpis"]
                /\ UNCHANGED <<self, hist>>
    /\ UNCHANGED <<api, today, db, xact, conn, resp, faults, runs>>

(* ------------------------- KPI batch, committed --------------------- *)
\* an upsert by (kpi_name, kpi_date): the rows of an earlier run of the day are
\* replaced
upsert_kpis(d, current_date, xid) ==
    [d EXCEPT !.kpis = {r \in @ : r.kpi_date # current_date}
                       \cup kpi_rows(d, current_date, xid)]

\* INSERT INTO kpis (kpi_name, kpi_date, kpi_value) VALUES (six rows): the rows
\* are added to whatever the table holds
insert_kpis(d, current_date, xid) ==
    [d EXCEPT !.kpis = @ \cup kpi_rows(d, current_date, xid)]

\* the rows of the failed statement that were written before it failed stay
kpis_partly_kept(d, current_date, xid) ==
    [d EXCEPT !.kpis = @ \cup {r \in kpi_rows(d, current_date, xid) :
                                  r.kpi_name \in {"mean_break_length_in_minutes",
                                                  "mean_shift_cost"}}]

\* conn.rollback() of compute_kpis: nothing of the failed INSERT stays
rollback_kpis(d, current_date, xid) == d

\* compute_kpis: connect, the one INSERT of six rows, commit
ComputeKpis(p) ==
    /\ pc[p] = "compute_kpis"
    /\ LET h == [hist[p] EXCEPT !.kpi_calls = @ + 1, !.snap = db]
       IN  \/ \* connect raises; the handler then reads the unbound name conn
              /\ Fault
              /\ pc' = [pc EXCEPT ![p] = "raised"]
              /\ hist' = [hist EXCEPT ![p] = [h EXCEPT !.exc = "UnboundLocalError",
                                                       !.at = "compute_kpis"]]
              /\ UNCHANGED <<db, xact>>
           \/ \* the INSERT or the commit raises: rollback, raise
              /\ Fault
              /\ pc' = [pc EXCEPT ![p] = "raised"]
              /\ hist' = [hist EXCEPT ![p] = [h EXCEPT !.exc = "OperationalError",
                                                       !.at = "compute_kpis"]]
              /\ xact' = Append(xact, [url |-> 0, kind |-> "kpis", state |-> "aborted"])
              /\ db' = rollback_kpis(db, today, Len(xact) + 1)
           \/ /\ UNCHANGED faults
              /\ db' = insert_kpis(db, today, Len(xact) + 1)
              /\ xact' = Append(xact, [url |-> 0, kind |-> "kpis", state |-> "committed"])
              /\ pc' = [pc EXCEPT ![p] = "returned"]
              /\ hist' = [hist EXCEPT ![p] = [h EXCEPT !.kpi_xid = Len(xact) + 1]]
    /\ UNCHANGED <<api, today, self, conn, resp, runs>>

(* ----------------------------- Data Reset ---------------------------- *)
\* schema: the children's foreign keys to shifts are ON DELETE CASCADE
on_delete_cascade(d, gone) ==
    [d EXCEPT !.breaks = {r \in @ : r.shift_id \notin gone},
              !.allowances = {r \in @ : r.shift_id \notin gone},
              !.award_interpretations = {r \in @ : r.shift_id \notin gone}]

\* the rows of shifts are deleted and the rows that refer to them are left
delete_shifts_only(d) == [d EXCEPT !.shifts = {}]

\* DELETE FROM shifts CASCADE: CASCADE is read as an alias of the table, the
\* statement deletes every row of shifts
delete_shifts(d) ==
    on_delete_cascade([d EXCEPT !.shifts = {}], {s.shift_id : s \in d.shifts})

\* the kpis table is left out of the reset
keep_kpis(d) == d

\* DELETE FROM kpis
delete_kpis(d) == [d EXCEPT !.kpis = {}]

\* clear_data: connect, the two DELETE statements, commit
ClearData(p) ==
    /\ pc[p] = "clear_data"
    /\ \/ \* connect raises; the finally block then reads the unbound name cursor
          /\ Fault
          /\ Raise(p, "UnboundLocalError", "clear_data")
          /\ UNCHANGED db
       \/ \* a DELETE or the commit raises: the connection is closed uncommitted
          /\ Fault
          /\ Raise(p, "OperationalError", "clear_data")
          /\ UNCHANGED db
       \/ /\ UNCHANGED faults
          /\ db' = delete_kpis(delete_shifts(db))
          /\ pc' = [pc EXCEPT ![p] = "returned"]
          /\ UNCHANGED hist
    /\ UNCHANGED <<api, today, xact, self, conn, resp, runs>>

(* --------------------------- specification --------------------------- *)
\* the steps of server process p in a request to /run-etl
RunStep(p) ==
    \/ StartRunEtl(p)
    \/ FetchData(p)
    \/ Connect(p)
    \/ ProcessJson(p)
    \/ InsertData(p)
    \/ Commit(p)
    \/ GetNextUrl(p)
    \/ ComputeKpis(p)
    \/ Respond(p)

\* the steps of server process p
Step(p) ==
    \/ RunStep(p)
    \/ StartClearData(p)
    \/ ClearData(p)

\* one server process: its handlers are async functions that never await, so
\* the event loop runs one request at a time
Next == Step("w1")

Spec == Init /\ [][Next]_vars

\* several server processes on one store, each running one request to
\* /run-etl at a time (the processes being alike, the first request is w1's)
NextConcurrent ==
    \/ RunStep("w1")
    \/ hist["w1"].handler # "none" /\ RunStep("w2")

\* the bodies of the chains two processes work on at once: a shift with
\* breaks and allowances, two shifts of which one has awards, no shift
ConcurrentBodies == {1, 2, 4}

\* the concurrent behaviours are explored over chains of pages that can be
\* written, without resets and without faults of the environment: what fails
\* a page there is the other process
InitConcurrent ==
    /\ \E chain \in Chains :
          /\ \A i \in DOMAIN chain : chain[i] \in ConcurrentBodies
          /\ api = MakeApi(chain)
    /\ today = 20
    /\ db = EmptyDb
    /\ xact = <<>>
    /\ pc = [p \in Procs |-> "idle"]
    /\ self = [p \in Procs |-> NewProcessor]
    /\ conn = [p \in Procs |-> NoConn]
    /\ resp = [p \in Procs |-> 0]
    /\ hist = [p \in Procs |-> NoHist]
    /\ faults = MaxFaults
    /\ runs = 0

SpecConcurrent == InitConcurrent /\ [][NextConcurrent]_vars

\* the bodies of the chains that may lead back into themselves: pages that can
\* be written one after the other, one of them without a shift
CyclicBodies == {1, 2, 4}

\* chains of different pages whose last page has no next link (back = 0) or
\* one that leads to a page of the chain; no faults of the environment
InitCyclic ==
    /\ \E chain \in Chains : \E back \in 0..Len(chain) :
          /\ \A i \in DOMAIN chain : chain[i] \in CyclicBodies
          /\ \A i, j \in DOMAIN chain : i # j => chain[i] # chain[j]
          /\ api = MakeCyclicApi(chain, back)
    /\ today = 20
    /\ db = EmptyDb
    /\ xact = <<>>
    /\ pc = [p \in Procs |-> "idle"]
    /\ self = [p \in Procs |-> NewProcessor]
    /\ conn = [p \in Procs |-> NoConn]
    /\ resp = [p \in Procs |-> 0]
    /\ hist = [p \in Procs |-> NoHist]
    /\ faults = MaxFaults
    /\ runs = 0

\* the requests to /run-etl of one server process; a run is followed until
\* it has requested MaxFetches pages
NextCyclic ==
    \/ StartRunEtl("w1")
    \/ Len(hist["w1"].fetched) < MaxFetches /\ FetchData("w1")
    \/ Connect("w1")
    \/ ProcessJson("w1")
    \/ InsertData("w1")
    \/ Commit("w1")
    \/ GetNextUrl("w1")
    \/ ComputeKpis("w1")
    \/ Respond("w1")

SpecCyclic == InitCyclic /\ [][NextCyclic]_vars

(* ------------- the standalone script, shift_data_processor.py -------- *)
\* parse_timestamp of the script: datetime.fromtimestamp(timestamp / 1000), a
\* true division; the store keeps the timestamp in milliseconds
standalone_parse_timestamp(timestamp) ==
    IF is_positive_int(timestamp)
    THEN timestamp[2]
    ELSE NULL

standalone_process_shifts(results) ==
    [i \in DOMAIN results |->
        LET result == results[i]
        IN  [shift_id     |-> result["id"],
             shift_date   |-> result["date"],
             shift_cost   |-> round4(
                 SumSeq([j \in DOMAIN result["allowances"] |->
                            result["allowances"][j]["cost"]])
                 + SumSeq([j \in DOMAIN result["award_interpretations"] |->
                            result["award_interpretations"][j]["cost"]])),
             shift_start  |-> standalone_parse_timestamp(Get(result, "start")),
             shift_finish |-> standalone_parse_timestamp(Get(result, "finish"))]]

standalone_process_breaks(results) ==
    Flatten([i \in DOMAIN results |->
        [j \in DOMAIN results[i]["breaks"] |->
            LET break_record == results[i]["breaks"][j]
            IN  [break_id     |-> break_record["id"],
                 shift_id     |-> results[i]["id"],
                 break_start  |-> standalone_parse_timestamp(Get(break_record, "start")),
                 break_finish |-> standalone_parse_timestamp(Get(break_record, "finish")),
                 is_paid      |-> break_record["paid"]]]])

\* process_json of the script: as that of the service but for the timestamps
standalone_process_json(old, json_data) ==
    IF ~Has(json_data, "results") THEN old
    ELSE LET results == json_data["results"]
         IN  IF shifts_raises(results) THEN old
             ELSE LET r1 == [old EXCEPT !.shifts = standalone_process_shifts(results)]
                  IN  IF breaks_raises(results) THEN r1
                      ELSE LET r2 == [r1 EXCEPT !.breaks =
                                         standalone_process_breaks(results)]
                           IN  IF nested_raises(results, "allowances") THEN r2
                               ELSE LET r3 == [r2 EXCEPT !.allowances =
                                                  process_allowances(results)]
                                    IN  IF nested_raises(results, "award_interpretations")
                                        THEN r3
                                        ELSE [r3 EXCEPT !.award_interpretations =
                                                 process_award_interpretations(results)]

\* EXTRACT(EPOCH FROM AVG(break_finish - break_start)) / 60, of timestamps in
\* milliseconds
standalone_mean_break_length_in_minutes(d) ==
    LET timed == {b \in d.breaks : b.break_start # NULL /\ b.break_finish # NULL}
    IN  IF timed = {} THEN SqlNull
        ELSE Num(SumDiff(timed, "break_finish", "break_start"),
                 60 * 1000 * Cardinality(timed))

\* AVG(shift_cost)
standalone_mean_shift_cost(d) ==
    IF d.shifts = {} THEN SqlNull
    ELSE Num(SumCol(d.shifts, "shift_cost"), Cardinality(d.shifts))

\* MAX(allowance_cost) over allowances joined to their shift,
\* WHERE shift_date >= CURRENT_DATE - INTERVAL '14 days'
standalone_max_allowance_cost_14d(d, current_date) ==
    LET costs == {a.allowance_cost : a \in
                    {a \in d.allowances :
                        \E s \in d.shifts : /\ s.shift_id = a.shift_id
                                            /\ s.shift_date >= current_date - 14}}
    IN  IF costs = {} THEN SqlNull ELSE Num(Max(costs), 1)

\* SUM(CASE WHEN break_id IS NULL THEN 1 ELSE 0 END) OVER (ORDER BY shift_date)
standalone_grp(rows, row) ==
    Cardinality({r \in rows : r[2] = NULL /\ r[3] <= row[3]})

\* SELECT COUNT(*) - CASE WHEN grp = 0 THEN 0 ELSE 1 END AS cnt FROM grps
\* GROUP BY grp ORDER BY cnt DESC LIMIT 1
standalone_max_break_free_shift_period_in_days(d) ==
    LET rows == grps_rows(d)
        cnt(g) == Cardinality({r \in rows : standalone_grp(rows, r) = g})
                    - (IF g = 0 THEN 0 ELSE 1)
        cnts == {cnt(standalone_grp(rows, r)) : r \in rows}
    IN  IF rows = {} THEN SqlNull ELSE Num(Max(cnts), 1)

\* MIN(EXTRACT(EPOCH FROM (shift_finish - shift_start)) / 3600)
standalone_min_shift_length_in_hours(d) ==
    LET lens == {s.shift_finish - s.shift_start : s \in
                    {s \in d.shifts : s.shift_start # NULL /\ s.shift_finish # NULL}}
    IN  IF lens = {} THEN SqlNull ELSE Num(Min(lens), 3600 * 1000)

\* SELECT COUNT(*) FROM breaks WHERE is_paid = true
standalone_total_number_of_paid_breaks(d) ==
    Num(Cardinality({b \in d.breaks : b.is_paid}), 1)

standalone_kpi_value(name, d, current_date) ==
    CASE name = "mean_break_length_in_minutes" ->
            standalone_mean_break_length_in_minutes(d)
      [] name = "mean_shift_cost" -> standalone_mean_shift_cost(d)
      [] name = "max_allowance_cost_14d" ->
            standalone_max_allowance_cost_14d(d, current_date)
      [] name = "max_break_free_shift_period_in_days" ->
            standalone_max_break_free_shift_period_in_days(d)
      [] name = "min_shift_length_in_hours" -> standalone_min_shift_length_in_hours(d)
      [] name = "total_number_of_paid_breaks" ->
            standalone_total_number_of_paid_breaks(d)

\* the six rows of the script's INSERT INTO kpis statement
standalone_kpi_rows(d, current_date, xid) ==
    {[kpi_name |-> n, kpi_date |-> current_date,
      kpi_value |-> standalone_kpi_value(n, d, current_date), xmin |-> xid] :
        n \in KpiNames}

\* python shift_data_processor.py: a new ShiftDataProcessor, process_all_pages
StandaloneStart(p) ==
    /\ pc[p] = "idle"
    /\ runs < MaxRuns
    /\ runs' = runs + 1
    /\ self' = [self EXCEPT ![p] = [NewProcessor EXCEPT !.url = 1]]
    /\ pc' = [pc EXCEPT ![p] = "fetch_data"]
    /\ hist' = [hist EXCEPT ![p] = [NoHist EXCEPT !.handler = "standalone", !.db0 = db,
                                                  !.prev = hist[p].handler]]
    /\ resp' = [resp EXCEPT ![p] = 0]
    /\ UNCHANGED <<api, today, db, xact, conn, faults>>

\* process_all_pages of the script: except Exception ... break.  The loop is
\* left and the statement after it, self.compute_kpis(), runs
StandaloneBreak(p, exc, at) ==
    /\ pc' = [pc EXCEPT ![p] = "compute_kpis"]
    /\ hist' = [hist EXCEPT ![p].exc = exc, ![p].at = at]

\* fetch_data and the test of its result: a failed fetch leaves the loop by
\* break, without an exception
StandaloneFetchData(p) ==
    /\ pc[p] = "fetch_data"
    /\ LET url == self[p].url
           h   == [hist[p] EXCEPT !.fetched = Append(@, url)]
       IN  \/ /\ Fault
              /\ pc' = [pc EXCEPT ![p] = "compute_kpis"]
              /\ hist' = [hist EXCEPT ![p] = [h EXCEPT !.got = "failed",
                                                       !.at = "fetch_data"]]
              /\ UNCHANGED self
           \/ /\ UNCHANGED faults
              /\ IF url \in DOMAIN api /\ Truthy(api[url])
                 THEN /\ self' = [self EXCEPT ![p].json_data = api[url]]
                      /\ pc' = [pc EXCEPT ![p] = "process_json"]
                      /\ hist' = [hist EXCEPT ![p] =
                                    [h EXCEPT !.processed = Append(@, url), !.stmts = 0,
                                              !.got = "json"]]
                 ELSE /\ pc' = [pc EXCEPT ![p] = "compute_kpis"]
                      /\ hist' = [hist EXCEPT ![p] = [h EXCEPT !.got = "json",
                                                               !.at = "fetch_data"]]
                      /\ UNCHANGED self
    /\ UNCHANGED <<api, today, db, xact, conn, resp, runs>>

\* process_and_insert_data of the script: self.process_json(json_data), on no
\* connection
StandaloneProcessJson(p) ==
    /\ pc[p] = "process_json"
    /\ self' = [self EXCEPT ![p].records = standalone_process_json(@, self[p].json_data)]
    /\ IF process_json_raises(self[p].json_data)
       THEN StandaloneBreak(p, process_json_exc(self[p].json_data), "process_json")
       ELSE /\ pc' = [pc EXCEPT ![p] = "insert_shifts"]
            /\ UNCHANGED hist
    /\ UNCHANGED <<api, today, db, xact, conn, resp, faults, runs>>

\* the transaction of one insert_data call of the script
StandaloneXact(p, table, state) ==
    Append(xact, [url |-> self[p].url, kind |-> table, state |-> state, run |-> runs])

\* the control point after an insert of process_and_insert_data of the
\* script: the next insert, or the return to the loop
StandaloneAfter(at) ==
    IF InsertAt[at].next = "commit" THEN "get_next_url" ELSE InsertAt[at].next

\* insert_data of the script: a connection of its own, the INSERT, the commit;
\* an exception of the INSERT or of the commit is printed and not raised
StandaloneInsertData(p) ==
    /\ pc[p] \in DOMAIN InsertAt
    /\ LET table   == InsertAt[pc[p]].table
           columns == Columns[table]
           data    == self[p].records[table]
           xid     == Len(xact) + 1
       IN  IF \E i \in DOMAIN data : ~HasAll(data[i], columns)
           THEN \* building data_tuples, before the try, raises KeyError
                /\ StandaloneBreak(p, "KeyError", pc[p])
                /\ UNCHANGED <<db, xact, faults>>
           ELSE \/ \* connect raises; the finally block then reads the unbound
                   \* name cursor
                   /\ Fault
                   /\ StandaloneBreak(p, "UnboundLocalError", pc[p])
                   /\ UNCHANGED <<db, xact>>
                \/ \* the server fails during the INSERT: printed, not raised
                   /\ data # <<>>
                   /\ Fault
                   /\ xact' = StandaloneXact(p, table, "aborted")
                   /\ pc' = [pc EXCEPT ![p] = StandaloneAfter(pc[p])]
                   /\ UNCHANGED <<db, hist>>
                \/ /\ UNCHANGED faults
                   /\ pc' = [pc EXCEPT ![p] = StandaloneAfter(pc[p])]
                   /\ IF data # <<>> /\ Conflict(p, table, data)
                      THEN \* IntegrityError: printed, not raised
                           /\ xact' = StandaloneXact(p, table, "aborted")
                           /\ UNCHANGED <<db, hist>>
                      ELSE /\ xact' = StandaloneXact(p, table, "committed")
                           /\ db' = [db EXCEPT ![table] = @ \cup Rows(data, columns, xid)]
                           /\ hist' = [hist EXCEPT ![p].committed = Append(@, xid),
                                                   ![p].stmts = @ + 1]
    /\ UNCHANGED <<api, today, self, conn, resp, runs>>

\* get_next_url of the script, which joins the next link to links.base, and
\* the loop test
StandaloneGetNextUrl(p) ==
    /\ pc[p] = "get_next_url"
    /\ LET json_data == self[p].json_data
       IN  IF ~Has(json_data, "links")
           THEN /\ StandaloneBreak(p, "KeyError", "get_next_url")
                /\ UNCHANGED self
           ELSE IF Has(json_data["links"], "next") /\ Has(json_data["links"], "base")
           THEN /\ self' = [self EXCEPT ![p].url = json_data["links"]["next"]]
                /\ pc' = [pc EXCEPT ![p] = "fetch_data"]
                /\ UNCHANGED hist
           ELSE /\ pc' = [pc EXCEPT ![p] = "compute_kpis"]
                /\ UNCHANGED <<self, hist>>
    /\ UNCHANGED <<api, today, db, xact, conn, resp, faults, runs>>

\* compute_kpis of the script: connect, the one INSERT of six rows, commit; an
\* exception is logged and not raised
StandaloneComputeKpis(p) ==
    /\ pc[p] = "compute_kpis"
    /\ LET h == [hist[p] EXCEPT !.kpi_calls = @ + 1, !.snap = db]
       IN  \/ \* connect raises; the finally block then reads the unbound name
              \* cursor, and that exception ends the script
              /\ Fault
              /\ pc' = [pc EXCEPT ![p] = "raised"]
              /\ hist' = [hist EXCEPT ![p] = h]
              /\ UNCHANGED <<db, xact>>
           \/ \* the INSERT or the commit raises: logged, the connection closed
              /\ Fault
              /\ pc' = [pc EXCEPT ![p] = "returned"]
              /\ hist' = [hist EXCEPT ![p] = h]
              /\ xact' = Append(xact, [url |-> 0, kind |-> "kpis", state |-> "aborted",
                                       run |-> runs])
              /\ UNCHANGED db
           \/ /\ UNCHANGED faults
              /\ db' = [db EXCEPT !.kpis = @ \cup standalone_kpi_rows(db, today,
                                                                     Len(xact) + 1)]
              /\ xact' = Append(xact, [url |-> 0, kind |-> "kpis", state |-> "committed",
                                       run |-> runs])
              /\ pc' = [pc EXCEPT ![p] = "returned"]
              /\ hist' = [hist EXCEPT ![p] = [h EXCEPT !.kpi_xid = Len(xact) + 1]]
    /\ UNCHANGED <<api, today, self, conn, resp, runs>>

\* the script ends: exit status 0, or 1 after an uncaught exception
StandaloneExit(p) ==
    /\ pc[p] \in {"returned", "raised"}
    /\ resp' = [resp EXCEPT ![p] = IF pc[p] = "raised" THEN 1 ELSE 0]
    /\ pc' = [pc EXCEPT ![p] = "idle"]
    /\ self' = [self EXCEPT ![p] = NewProcessor]
    /\ UNCHANGED <<api, today, db, xact, conn, hist, faults, runs>>

\* the script, run from the command line by one process at a time
NextStandalone ==
    \/ StandaloneStart("w1")
    \/ StandaloneFetchData("w1")
    \/ StandaloneProcessJson("w1")
    \/ StandaloneInsertData("w1")
    \/ StandaloneGetNextUrl("w1")
    \/ StandaloneComputeKpis("w1")
    \/ StandaloneExit("w1")

SpecStandalone == Init /\ [][NextStandalone]_vars

(* ----------------------- vocabulary of the claims -------------------- *)
\* the rows of a table written by transaction xid
RowsOf(d, table, xid) == {r \in d[table] : r.xmin = xid}

\* the page written by transaction xid is wholly in the store / wholly absent
\* process_json on each page body of the catalog
CatalogRecords == [b \in DOMAIN Catalog |-> process_json(NoRecords, Catalog[b])]

\* the record sets process_json makes of a page of the chain: those of the
\* catalog body with the page's results
RecordsOf(json_data) ==
    CatalogRecords[CHOOSE b \in DOMAIN Catalog :
        /\ DOMAIN Catalog[b] = DOMAIN json_data
        /\ Has(json_data, "results") => Catalog[b]["results"] = json_data["results"]]

PagePresent(d, xid) ==
    LET records == RecordsOf(api[xact[xid].url])
    IN  \A t \in IngestionTables :
            RowsOf(d, t, xid) = Rows(records[t], Columns[t], xid)

PageAbsent(d, xid) == \A t \in IngestionTables : RowsOf(d, t, xid) = {}

Ended(p) == pc[p] \in {"raised", "idle"}

InsertPoints == DOMAIN InsertAt

PageStages == InsertPoints \cup {"connect", "process_json", "commit"}

Upto(n) == [i \in 1..n |-> i]

(* ------------------------------- C1 ---------------------------------- *)
\* C1: per-page atomicity.  A page transaction that failed (or is still open)
\* has no row in any of the four tables and its failure has reached the caller
\* of process_and_insert_data; a committed page is in the store with all four
\* record sets or (after a reset) with none; right after its commit it is there
\* with all four.
C1_PageAtomicity ==
    /\ \A x \in DOMAIN xact :
          xact[x].kind = "page" =>
             /\ xact[x].state # "committed" => PageAbsent(db, x)
             /\ xact[x].state = "committed" => PagePresent(db, x) \/ PageAbsent(db, x)
    /\ \A p \in Procs :
          /\ pc[p] = "get_next_url" =>
                /\ hist[p].committed # <<>>
                /\ PagePresent(db, hist[p].committed[Len(hist[p].committed)])
          /\ hist[p].at \in InsertPoints =>
                /\ Ended(p)
                /\ hist[p].exc # "none"
                /\ xact[hist[p].xid].state = "aborted"
                /\ PageAbsent(db, hist[p].xid)

\* C1 witness: the breaks insert of the second page hit a duplicate break id
\* after that page's shifts insert had gone through; the first page is stored
C1_Witness ==
    \E p \in Procs :
        /\ pc[p] = "raised"
        /\ hist[p].at = "insert_breaks"
        /\ hist[p].exc = "IntegrityError"
        /\ hist[p].stmts = 1
        /\ Len(hist[p].committed) = 1
        /\ PagePresent(db, hist[p].committed[1])
        /\ db.shifts # {}

(* ------------------------------- C2 ---------------------------------- *)
\* C2: pagination termination.  In every run the pages are requested in chain
\* order, each once, and each fetched page is processed before the next is
\* requested; compute_kpis runs at most once and only after the last page; a
\* run in which nothing failed ends returned, after exactly Len(api) fetches,
\* Len(api) processed and committed pages and one compute_kpis.
C2_PaginationTermination ==
    \A p \in Procs :
        hist[p].handler = "run_etl" =>
            LET h == hist[p]
                n == Len(api)
            IN  /\ Len(h.fetched) <= n
                /\ h.fetched = Upto(Len(h.fetched))
                /\ h.processed = Upto(Len(h.processed))
                /\ Len(h.fetched) - Len(h.processed) \in {0, 1}
                /\ h.kpi_calls <= 1
                /\ h.kpi_calls = 1 => Len(h.processed) = n /\ Len(h.committed) = n
                /\ pc[p] = "compute_kpis" => Len(h.committed) = n /\ h.kpi_calls = 0
                /\ pc[p] = "returned" =>
                      /\ h.fetched = Upto(n)
                      /\ h.processed = Upto(n)
                      /\ Len(h.committed) = n
                      /\ h.kpi_calls = 1
                /\ Ended(p) /\ h.exc = "none" =>
                      /\ resp[p] = 200
                      /\ h.fetched = Upto(n)
                      /\ h.kpi_calls = 1

\* C2 witness: a run over a chain of two pages has returned
C2_Witness ==
    \E p \in Procs :
        /\ pc[p] = "returned"
        /\ hist[p].handler = "run_etl"
        /\ Len(api) = 2
        /\ hist[p].fetched = <<1, 2>>
        /\ hist[p].kpi_calls = 1

(* ------------------------------- C3 ---------------------------------- *)
\* C3: an exception while a page is transformed or written fails the run: the
\* run has ended with the failing page as the last one fetched, compute_kpis
\* was not invoked, the kpis table is as it was when the run began, and the
\* caller gets the exception (the handler answers 400 or 500, never 200).
C3_PageFailureFailsRun ==
    \A p \in Procs :
        hist[p].handler = "run_etl" /\ hist[p].at \in PageStages =>
            /\ Ended(p)
            /\ hist[p].exc # "none"
            /\ Len(hist[p].fetched) = Len(hist[p].processed)
            /\ Len(hist[p].committed) = Len(hist[p].fetched) - 1
            /\ hist[p].kpi_calls = 0
            /\ db.kpis = hist[p].db0.kpis
            /\ pc[p] = "idle" => resp[p] \in {400, 500}

\* C3 witness: the transform of the second page raised, the first is committed
C3_Witness ==
    \E p \in Procs :
        /\ pc[p] = "idle"
        /\ resp[p] = 500
        /\ hist[p].at = "process_json"
        /\ hist[p].exc = "KeyError"
        /\ Len(hist[p].committed) = 1
        /\ Len(api) = 2

(* ------------------------------- C4 ---------------------------------- *)
\* C4: a fetch failure at page k ends the run with an error (answered 400):
\* the URLs 1..k were requested once each and none after, compute_kpis was not
\* invoked and no KPI row was added, and the store holds, beside what it held
\* when the run began, exactly the complete pages 1..k-1.
C4_FetchFailure ==
    \A p \in Procs :
        hist[p].handler = "run_etl" /\ hist[p].at = "fetch_data" =>
            LET h == hist[p]
                k == Len(h.fetched)
            IN  /\ Ended(p)
                /\ h.exc = "ValueError"
                /\ pc[p] = "idle" => resp[p] = 400
                /\ h.fetched = Upto(k)
                /\ h.processed = Upto(k - 1)
                /\ Len(h.committed) = k - 1
                /\ h.kpi_calls = 0
                /\ db.kpis = h.db0.kpis
                /\ \A i \in 1..(k - 1) :
                      /\ xact[h.committed[i]].url = i
                      /\ PagePresent(db, h.committed[i])
                /\ \A t \in IngestionTables :
                      db[t] = h.db0[t] \cup
                              UNION {RowsOf(db, t, h.committed[i]) : i \in 1..(k - 1)}

\* C4 witness: the fetch of the second page failed; the rows of the first page
\* are in the store
C4_Witness ==
    \E p \in Procs :
        /\ pc[p] = "raised"
        /\ hist[p].at = "fetch_data"
        /\ hist[p].fetched = <<1, 2>>
        /\ db.shifts # {}
        /\ db.breaks # {}
        /\ db.kpis = {}

(* ------------------------------- C5 ---------------------------------- *)
\* C5: a constraint violation on page k rolls back page k only: the run has
\* ended with an error, page k+1 was not fetched, page k's transaction is
\* aborted and has no row, and the store is exactly what it was when page k's
\* transaction began, with the pages 1..k-1 complete in it.
C5_WriteConflict ==
    \A p \in Procs :
        hist[p].handler = "run_etl" /\ hist[p].exc = "IntegrityError" =>
            LET h == hist[p]
                k == Len(h.fetched)
            IN  /\ Ended(p)
                /\ h.at \in InsertPoints
                /\ h.processed = Upto(k)
                /\ xact[h.xid].url = k
                /\ xact[h.xid].state = "aborted"
                /\ PageAbsent(db, h.xid)
                /\ db = h.snap
                /\ Len(h.committed) = k - 1
                /\ \A i \in 1..(k - 1) :
                      /\ xact[h.committed[i]].state = "committed"
                      /\ PagePresent(db, h.committed[i])
                /\ pc[p] = "idle" => resp[p] = 500

\* C5 witness: page 2 repeats a break id of page 1; page 1 is still stored
C5_Witness ==
    \E p \in Procs :
        /\ pc[p] = "idle"
        /\ resp[p] = 500
        /\ hist[p].exc = "IntegrityError"
        /\ hist[p].at = "insert_breaks"
        /\ xact[hist[p].xid].url = 2
        /\ hist[p].db0 = EmptyDb
        /\ Cardinality(db.breaks) = 1
        /\ Cardinality(db.allowances) = 2

(* ------------------------------- C6 ---------------------------------- *)
\* the shapes C6 lists: no results, no links object, a shift without one of
\* its nested arrays, a nested record without a key written to its table
Lacks(result, record_key, keys) ==
    Has(result, record_key) /\ \E j \in DOMAIN result[record_key] :
        ~HasAll(result[record_key][j], keys)

Malformed(json_data) ==
    \/ ~Has(json_data, "results")
    \/ ~Has(json_data, "links")
    \/ \E i \in DOMAIN json_data["results"] :
          LET result == json_data["results"][i]
          IN  \/ ~HasAll(result, {"breaks", "allowances", "award_interpretations"})
              \/ Lacks(result, "breaks", {"id", "paid"})
              \/ Lacks(result, "allowances", {"id", "value", "cost"})
              \/ Lacks(result, "award_interpretations", {"id", "date", "units", "cost"})

\* C6 (as claimed): while the run works on a malformed page no insert of that
\* page has been attempted and the page is not committed, and the run does not
\* go on to the KPIs or return.
C6_StructuralErrorBeforeAnyWrite ==
    \A p \in Procs :
        (/\ hist[p].handler = "run_etl"
         /\ hist[p].processed # <<>>
         /\ Malformed(api[hist[p].processed[Len(hist[p].processed)]])) =>
            /\ hist[p].stmts = 0
            /\ Len(hist[p].committed) < Len(hist[p].processed)
            /\ pc[p] \notin {"compute_kpis", "returned"}

(* ------------------------------- C7 ---------------------------------- *)
\* the six KPI rows written by transaction xid are in the store
KpiBatchPresent(d, xid) ==
    /\ xid \in DOMAIN xact
    /\ xact[xid].kind = "kpis"
    /\ xact[xid].state = "committed"
    /\ {r.kpi_name : r \in RowsOf(d, "kpis", xid)} = KpiNames

\* C7: no silent partial success.  process_all_pages has returned, or run_etl
\* has answered 200, only if nothing raised, every page of the chain is
\* committed and in the store, and the KPI batch is committed; a run in which
\* a fetch, a page or the aggregation failed answers 400 or 500.
C7_NoSilentPartialSuccess ==
    \A p \in Procs :
        hist[p].handler = "run_etl" =>
            /\ (pc[p] = "returned" \/ (pc[p] = "idle" /\ resp[p] = 200)) =>
                  /\ hist[p].exc = "none"
                  /\ Len(hist[p].committed) = Len(api)
                  /\ \A i \in 1..Len(api) :
                        /\ xact[hist[p].committed[i]].url = i
                        /\ xact[hist[p].committed[i]].state = "committed"
                        /\ PagePresent(db, hist[p].committed[i])
                  /\ KpiBatchPresent(db, hist[p].kpi_xid)
            /\ (pc[p] = "idle" /\ hist[p].exc # "none") => resp[p] \in {400, 500}

\* C7 witness: a run over two pages with rows has answered 200
C7_Witness ==
    \E p \in Procs :
        /\ pc[p] = "idle"
        /\ resp[p] = 200
        /\ hist[p].handler = "run_etl"
        /\ Len(api) = 2
        /\ Cardinality(db.shifts) >= 2
        /\ Cardinality(db.kpis) = 6

(* ------------------------------- C8 ---------------------------------- *)
IsZero(v) == v.den # 0 /\ v.num = 0

\* C8 (as claimed): a KPI batch computed over a store without shifts, breaks
\* and allowances holds six rows, each with value 0 and none NULL.
C8_EmptyDatasetKpisAreZero ==
    \A p \in Procs :
        (/\ pc[p] = "returned"
         /\ hist[p].handler = "run_etl"
         /\ db.shifts = {} /\ db.breaks = {} /\ db.allowances = {}) =>
            /\ Cardinality(RowsOf(db, "kpis", hist[p].kpi_xid)) = 6
            /\ \A r \in RowsOf(db, "kpis", hist[p].kpi_xid) : IsZero(r.kpi_value)

(* ------------------------------- C9 ---------------------------------- *)
\* the KPI transactions whose rows the store holds
KpiBatches(d) == {r.xmin : r \in d.kpis}

\* C9: KPI append semantics.  A run that has returned has added exactly six
\* KPI rows, one per name, dated today, to the rows the table held when the
\* run began, all of which are still there; the table always holds six rows
\* for each batch in it, so twelve after two successful runs.
C9_KpiAppend ==
    /\ \A p \in Procs :
          hist[p].handler = "run_etl" /\ pc[p] = "returned" =>
             LET new == RowsOf(db, "kpis", hist[p].kpi_xid)
             IN  /\ Cardinality(new) = 6
                 /\ {r.kpi_name : r \in new} = KpiNames
                 /\ \A r \in new : r.kpi_date = today
                 /\ new \cap hist[p].db0.kpis = {}
                 /\ db.kpis = hist[p].db0.kpis \cup new
                 /\ Cardinality(db.kpis) = Cardinality(hist[p].db0.kpis) + 6
    /\ Cardinality(db.kpis) = 6 * Cardinality(KpiBatches(db))
    /\ \A x \in KpiBatches(db) : KpiBatchPresent(db, x)

\* C9 witness: the second successful run of the day has returned and the table
\* holds twelve rows, six of them from the first run
C9_Witness ==
    \E p \in Procs :
        /\ pc[p] = "returned"
        /\ hist[p].handler = "run_etl"
        /\ Cardinality(hist[p].db0.kpis) = 6
        /\ Cardinality(db.kpis) = 12
        /\ \A r \in db.kpis : r.kpi_date = today

(* ------------------------------- C10 --------------------------------- *)
\* C10: data reset.  When clear_data has returned all five tables are empty,
\* whatever they held; clear_data raises only when the database failed, so on
\* an empty store and twice in a row it succeeds.
C10_ClearData ==
    \A p \in Procs :
        hist[p].handler = "clear_data" =>
            /\ (pc[p] = "returned" \/ (pc[p] = "idle" /\ resp[p] = 200)) =>
                  /\ db = EmptyDb
                  /\ hist[p].exc = "none"
            /\ hist[p].exc # "none" =>
                  /\ faults > 0
                  /\ hist[p].at = "clear_data"
                  /\ db = hist[p].db0
            /\ pc[p] = "idle" => resp[p] = IF hist[p].exc = "none" THEN 200 ELSE 500

\* C10 witness: clear_data has succeeded right after another clear_data, on
\* the store the first one emptied
C10_Witness ==
    \E p \in Procs :
        /\ pc[p] = "idle"
        /\ resp[p] = 200
        /\ hist[p].handler = "clear_data"
        /\ hist[p].prev = "clear_data"
        /\ hist[p].db0 = EmptyDb
        /\ db = EmptyDb

(* ------------------------------- C11 --------------------------------- *)
\* the records of a page are those of the body the worker holds
Transformed(p) == pc[p] \in InsertPoints \cup {"commit", "get_next_url"}

\* sum of the cost entries of the first n records of a nested list
RECURSIVE ListCost(_, _)
ListCost(list, n) == IF n = 0 THEN 0 ELSE list[n]["cost"] + ListCost(list, n - 1)

\* x is a multiple of 1e-4 nearest to y, of the two nearest the even one
Rounded4(x, y) ==
    /\ x % 10 = 0
    /\ 2 * (x - y) \in (0 - 10)..10
    /\ 2 * (x - y) \in {0 - 10, 10} => (x \div 10) % 2 = 0

\* C11: cost invariant.  Once a page is transformed, the i-th shift record
\* carries the id of the i-th shift object and a shift_cost that is the sum of
\* that object's allowance costs and award-interpretation costs rounded to 4
\* decimals; an empty list adds 0 and no other shift of the page adds anything.
C11_ShiftCost ==
    \A p \in Procs :
        Transformed(p) =>
            LET results == self[p].json_data["results"]
                shifts  == self[p].records.shifts
            IN  /\ DOMAIN shifts = DOMAIN results
                /\ \A i \in DOMAIN results :
                      LET a == results[i]["allowances"]
                          w == results[i]["award_interpretations"]
                      IN  /\ shifts[i].shift_id = results[i]["id"]
                          /\ Rounded4(shifts[i].shift_cost,
                                      ListCost(a, Len(a)) + ListCost(w, Len(w)))
                          /\ a = <<>> /\ w = <<>> => shifts[i].shift_cost = 0

\* C11 witness: a page of two shifts is transformed, one shift with awards and
\* one with neither allowances nor awards
C11_Witness ==
    \E p \in Procs :
        /\ pc[p] = "insert_shifts"
        /\ Len(self[p].records.shifts) = 2
        /\ \E i, j \in 1..2 :
              /\ self[p].records.shifts[i].shift_cost > 0
              /\ self[p].records.shifts[j].shift_cost = 0
              /\ self[p].json_data["results"][i]["award_interpretations"] # <<>>

(* ------------------------------- C12 --------------------------------- *)
\* the values process_shifts and process_breaks pass to parse_timestamp
TimestampsOf(json_data) ==
    IF ~Has(json_data, "results") THEN {}
    ELSE UNION {
        {Get(json_data["results"][i], k) : k \in {"start", "finish"}}
        \cup (IF ~Has(json_data["results"][i], "breaks") THEN {}
              ELSE {Get(json_data["results"][i]["breaks"][j], k) :
                      j \in DOMAIN json_data["results"][i]["breaks"],
                      k \in {"start", "finish"}})
        : i \in DOMAIN json_data["results"]}

\* C12 (as claimed): for every value a page hands to parse_timestamp the call
\* does not raise, and it returns a timestamp exactly when the value is a JSON
\* integer greater than zero, None otherwise.
C12_ParseTimestampTotal ==
    \A p \in Procs :
        pc[p] = "process_json" =>
            \A t \in TimestampsOf(self[p].json_data) :
                /\ ~parse_timestamp_raises(t)
                /\ parse_timestamp(t) # NULL <=> (t[1] = "int" /\ t[2] > 0)

(* ------------------------------- C13 --------------------------------- *)
\* C13 (as claimed): every timestamp of a transformed page stands for exactly
\* the milliseconds it was made from, so the length of a break in the records
\* is the difference of its two source timestamps.
C13_TimestampPrecision ==
    \A p \in Procs :
        Transformed(p) =>
            LET results == self[p].json_data["results"]
                shifts  == self[p].records.shifts
                breaks  == self[p].records.breaks
            IN  /\ \A i \in DOMAIN results : \A k \in {"start", "finish"} :
                      Has(results[i], k) /\ is_positive_int(results[i][k]) =>
                          1000 * shifts[i]["shift_" \o k] = results[i][k][2]
                /\ \A i \in DOMAIN results : \A j \in DOMAIN results[i]["breaks"] :
                      LET src == results[i]["breaks"][j]
                      IN  \A b \in DOMAIN breaks :
                            (/\ breaks[b].break_id = src["id"]
                             /\ is_positive_int(Get(src, "start"))
                             /\ is_positive_int(Get(src, "finish"))) =>
                                1000 * (breaks[b].break_finish - breaks[b].break_start)
                                    = src["finish"][2] - src["start"][2]

(* ------------------------------- C14 --------------------------------- *)
\* C14: aggregation failure.  When compute_kpis has failed the run has ended
\* with the exception (answered 500), all five tables are what they were when
\* compute_kpis was called, so no KPI row of the run is stored and the pages
\* of the run are still complete; a KPI transaction that did not commit never
\* has a row in the store, one that did has its six or (after a reset) none.
C14_AggregationFailure ==
    /\ \A p \in Procs :
          hist[p].handler = "run_etl" /\ hist[p].at = "compute_kpis" =>
             /\ Ended(p)
             /\ hist[p].exc # "none"
             /\ hist[p].kpi_calls = 1
             /\ hist[p].kpi_xid = 0
             /\ db = hist[p].snap
             /\ db.kpis = hist[p].db0.kpis
             /\ \A i \in DOMAIN hist[p].committed : PagePresent(db, hist[p].committed[i])
             /\ pc[p] = "idle" => resp[p] = 500
    /\ \A x \in DOMAIN xact :
          xact[x].kind = "kpis" =>
             /\ xact[x].state # "committed" => RowsOf(db, "kpis", x) = {}
             /\ Cardinality(RowsOf(db, "kpis", x)) \in {0, 6}

\* C14 witness: the KPI insert of a run failed after the run had committed a
\* page with shifts and breaks; the run has answered 500
C14_Witness ==
    \E p \in Procs :
        /\ pc[p] = "idle"
        /\ resp[p] = 500
        /\ hist[p].at = "compute_kpis"
        /\ hist[p].exc = "OperationalError"
        /\ \E x \in DOMAIN xact : xact[x].kind = "kpis" /\ xact[x].state = "aborted"
        /\ db.shifts # {}
        /\ db.breaks # {}
        /\ db.kpis = {}

(* ------------------------------- C15 --------------------------------- *)
\* every page transaction begun before xid is wholly in store d or wholly out
\* of it, and every ingestion row of d is a row of such a transaction
WholePages(d, xid) ==
    /\ \A x \in 1..(xid - 1) :
          xact[x].kind = "page" => PageAbsent(d, x) \/ PagePresent(d, x)
    /\ \A t \in IngestionTables : \A r \in d[t] :
          r.xmin < xid /\ xact[r.xmin].kind = "page"

\* C15: KPI snapshot consistency, with two processes on one store.  A page
\* transaction that has not committed has no row in the committed store, which
\* is all a KPI statement reads; whenever a process is about to compute its
\* KPIs every page is in that store whole or not at all, and every page of the
\* run's own chain is committed; when compute_kpis has returned the new KPI
\* batch holds the six values of the whole-page store its statement read.
C15_KpiSnapshot ==
    /\ \A x \in DOMAIN xact :
          xact[x].kind = "page" /\ xact[x].state # "committed" => PageAbsent(db, x)
    /\ (\E p \in Procs : pc[p] = "compute_kpis") => WholePages(db, Len(xact) + 1)
    /\ \A p \in Procs :
          hist[p].handler = "run_etl" =>
             /\ pc[p] = "compute_kpis" \/ hist[p].kpi_calls > 0 =>
                   /\ Len(hist[p].committed) = Len(api)
                   /\ \A i \in 1..Len(api) :
                         /\ xact[hist[p].committed[i]].url = i
                         /\ xact[hist[p].committed[i]].state = "committed"
             /\ pc[p] = "returned" =>
                   /\ WholePages(hist[p].snap, hist[p].kpi_xid)
                   /\ \A i \in 1..Len(api) :
                         PagePresent(hist[p].snap, hist[p].committed[i])
                   /\ RowsOf(db, "kpis", hist[p].kpi_xid)
                         = kpi_rows(hist[p].snap, today, hist[p].kpi_xid)

\* C15 witness: a run has computed its KPIs over a store with rows while the
\* run of the other process was inside a page transaction
C15_Witness ==
    \E p, q \in Procs :
        /\ p # q
        /\ pc[p] = "returned"
        /\ hist[p].handler = "run_etl"
        /\ hist[p].snap.shifts # {}
        /\ KpiBatchPresent(db, hist[p].kpi_xid)
        /\ hist[q].handler = "run_etl"
        /\ conn[q].open
        /\ pc[q] \in InsertPoints

(* ------------------------------- C16 --------------------------------- *)
\* the value of KPI name in the batch the run of p has written
KpiOf(p, name) ==
    (CHOOSE r \in RowsOf(db, "kpis", hist[p].kpi_xid) : r.kpi_name = name).kpi_value

\* the allowance costs of the shifts dated in the 14 days up to today
WindowCosts(d, current_date) ==
    {a.allowance_cost : a \in
        {a \in d.allowances : \E s \in d.shifts :
            /\ s.shift_id = a.shift_id
            /\ current_date - 14 <= s.shift_date
            /\ s.shift_date <= current_date}}

\* C16 (as claimed): when a run has returned, max_allowance_cost_14d of its
\* batch is the greatest allowance cost among the shifts dated from today - 14
\* to today, and 0 when there is none; a shift dated after today adds nothing.
C16_MaxAllowanceCost14d ==
    \A p \in Procs :
        hist[p].handler = "run_etl" /\ pc[p] = "returned" =>
            LET v == KpiOf(p, "max_allowance_cost_14d")
                w == WindowCosts(db, today)
            IN  /\ v.den = 1
                /\ w = {} => v.num = 0
                /\ w # {} => v.num \in w /\ \A c \in w : c <= v.num

(* ------------------------------- C17 --------------------------------- *)
BreakFree(d) == {s \in d.shifts : ~\E b \in d.breaks : b.shift_id = s.shift_id}

\* the number of shifts in the longest run of break-free shifts that no shift
\* with a break interrupts in the order of the dates; 0 without such a shift
LongestBreakFreeRun(d) ==
    LET free  == BreakFree(d)
        dates == {s.shift_date : s \in free}
        runs_ == {Cardinality({s \in free : lo <= s.shift_date /\ s.shift_date <= hi}) :
                    <<lo, hi>> \in {dd \in dates \X dates :
                        /\ dd[1] <= dd[2]
                        /\ ~\E s \in d.shifts \ free :
                              dd[1] < s.shift_date /\ s.shift_date < dd[2]}}
    IN  IF free = {} THEN 0 ELSE Max(runs_)

\* C17 (as claimed): when a run has returned over a store that holds shifts,
\* max_break_free_shift_period_in_days of its batch is the length of the
\* longest run of break-free shifts, 0 when every shift has a break.
C17_MaxBreakFreePeriod ==
    \A p \in Procs :
        hist[p].handler = "run_etl" /\ pc[p] = "returned" /\ db.shifts # {} =>
            KpiOf(p, "max_break_free_shift_period_in_days")
                = Num(LongestBreakFreeRun(db), 1)

(* ------------------------------- C18 --------------------------------- *)
\* the sum of f over the set S
RECURSIVE Total(_, _)
Total(f, S) ==
    IF S = {} THEN 0
    ELSE LET x == CHOOSE x \in S : TRUE IN f[x] + Total(f, S \ {x})

\* the fraction v is the mean of f over S, 0 over the empty set
IsMean(v, f, S, unit) ==
    /\ v.den > 0
    /\ S = {} => v.num = 0
    /\ S # {} => v.num * unit * Cardinality(S) = v.den * Total(f, S)

\* the fraction v is the least of f over S, 0 over the empty set
IsLeast(v, f, S, unit) ==
    /\ v.den > 0
    /\ S = {} => v.num = 0
    /\ S # {} => /\ \E x \in S : v.num * unit = v.den * f[x]
                 /\ \A x \in S : v.num * unit <= v.den * f[x]

MissingKey(json_data) ==
    /\ Has(json_data, "results")
    /\ \E i \in DOMAIN json_data["results"] :
          LET result == json_data["results"][i]
          IN  \/ ~HasAll(result, {"id", "date", "breaks", "allowances",
                                   "award_interpretations"})
              \/ Lacks(result, "breaks", {"id", "paid"})
              \/ Lacks(result, "allowances", {"id", "value", "cost"})
              \/ Lacks(result, "award_interpretations", {"id", "date", "units", "cost"})

\* C19 (as claimed): on a page with a missing required key process_json does
\* not complete: the run never stands behind the transform of such a page
\* with record sets to write.
C19_MissingKeyFailsTransform ==
    \A p \in Procs :
        (/\ hist[p].handler = "run_etl"
         /\ hist[p].processed # <<>>
         /\ MissingKey(api[hist[p].processed[Len(hist[p].processed)]])) =>
            ~Transformed(p)

(* ------------------------------- C20 --------------------------------- *)
\* C20 (as claimed): a run fails at the fetch only when the GET failed, and a
\* page whose GET returned a JSON body, whatever the body, is processed.
C20_FetchOutcome ==
    \A p \in Procs :
        hist[p].handler = "run_etl" =>
            /\ hist[p].at = "fetch_data" => hist[p].got = "failed"
            /\ hist[p].got = "json" => Len(hist[p].processed) = Len(hist[p].fetched)

(* ------------------------------- C21 --------------------------------- *)
\* the number of records nested under record_key in the first n shift objects
RECURSIVE NestedCount(_, _, _)
NestedCount(results, record_key, n) ==
    IF n = 0 THEN 0
    ELSE Len(results[n][record_key]) + NestedCount(results, record_key, n - 1)

\* the key under which a record set holds the id of the source record
IdColumn ==
    [breaks |-> "break_id", allowances |-> "allowance_id",
     award_interpretations |-> "award_id"]

NestedKeys == DOMAIN IdColumn

\* C21: flattening preserves records and ownership.  Once a page is
\* transformed there is one shift record per shift object and, for each of
\* breaks, allowances and awards, one record per nested record, in the order
\* of the page, each with the id of its source record and with the id of the
\* shift object it was nested in as its shift_id (whatever shift_id key the
\* nested record has itself); when the page has been committed each table
\* holds as many rows more than before the page as the page has such records.
C21_Flattening ==
    \A p \in Procs :
        Transformed(p) =>
            LET results == self[p].json_data["results"]
                records == self[p].records
            IN  /\ Len(records.shifts) = Len(results)
                /\ \A t \in NestedKeys :
                      /\ Len(records[t]) = NestedCount(results, t, Len(results))
                      /\ \A i \in DOMAIN results : \A j \in DOMAIN results[i][t] :
                            LET r == records[t][NestedCount(results, t, i - 1) + j]
                            IN  /\ r.shift_id = results[i]["id"]
                                /\ r[IdColumn[t]] = results[i][t][j]["id"]
                /\ pc[p] = "get_next_url" =>
                      \A t \in IngestionTables :
                          Cardinality(db[t])
                             = Cardinality(hist[p].snap[t]) + Len(records[t])

\* C21 witness: a page of two shifts is committed behind a page with rows; a
\* break and an award of its first shift carry the id of its second shift as
\* their own shift_id key, and are stored under the first shift
C21_Witness ==
    \E p \in Procs :
        /\ pc[p] = "get_next_url"
        /\ hist[p].snap.shifts # {}
        /\ Len(self[p].json_data["results"]) = 2
        /\ \E j \in DOMAIN self[p].json_data["results"][1]["breaks"] :
              LET b == self[p].json_data["results"][1]["breaks"][j]
              IN  Has(b, "shift_id") /\ b["shift_id"] = self[p].json_data["results"][2]["id"]
        /\ \E a \in db.award_interpretations :
              /\ a.award_id = 2
              /\ a.shift_id = self[p].json_data["results"][1]["id"]
        /\ Cardinality(db.breaks) = Cardinality(hist[p].snap.breaks) + 2

(* ------------------------------- C22 --------------------------------- *)
\* C22: idempotent transform.  The record sets of a page just transformed are a
\* function of the page alone: they are what a fresh processor yields for the
\* page, what the processor yields when it transforms the page once more, and
\* what it yields for the page after having been given any page of the chain
\* (whether that page could be transformed or not).
C22_IdempotentTransform ==
    \A p \in Procs :
        pc[p] = "insert_shifts" =>
            LET page    == self[p].json_data
                records == self[p].records
            IN  /\ records = process_json(NoRecords, page)
                /\ process_json(records, page) = records
                /\ \A i \in DOMAIN api :
                      process_json(process_json(NoRecords, api[i]), page) = records
                /\ \A i \in DOMAIN api :
                      process_json(process_json(records, api[i]), page) = records

\* C22 witness: the processor has transformed the second page of its run, the
\* first page having left records of all but one kind in its fields
C22_Witness ==
    \E p \in Procs :
        /\ pc[p] = "insert_shifts"
        /\ hist[p].processed = <<1, 2>>
        /\ process_json(NoRecords, api[1]).breaks # <<>>
        /\ process_json(NoRecords, api[1]).allowances # <<>>
        /\ self[p].records.shifts # <<>>
        /\ self[p].records.award_interpretations # <<>>
        /\ self[p].records.allowances = <<>>

(* ------------------------------- C23 --------------------------------- *)
\* the order in which the tables of a page are to be written
WriteOrder == <<"shifts", "breaks", "allowances", "award_interpretations">>

\* the number of inserts of the page that are behind a control point
InsertsDone ==
    [insert_shifts |-> 0, insert_breaks |-> 1, insert_allowances |-> 2,
     insert_award_interpretations |-> 3, commit |-> 4, get_next_url |-> 4]

\* the number of non-empty record sets among the first k in write order
RECURSIVE NonEmptySets(_, _)
NonEmptySets(records, k) ==
    IF k = 0 THEN 0
    ELSE (IF records[WriteOrder[k]] = <<>> THEN 0 ELSE 1) + NonEmptySets(records, k - 1)

\* C23: write order inside a page.  While a page is being written its one
\* transaction is open on the one connection and none of its rows is
\* committed; the record sets are inserted in the order shifts, breaks,
\* allowances, award_interpretations (behind k inserts the first k tables
\* have their rows on the connection, the others none); the commit comes
\* behind the fourth insert and puts the page in the store; an empty record
\* set sends no statement and an insert raises only for a non-empty one.
C23_WriteOrder ==
    \A p \in Procs :
        hist[p].handler = "run_etl" =>
            /\ pc[p] \in InsertPoints \cup {"commit"} =>
                  LET k == InsertsDone[pc[p]]
                      x == conn[p].xid
                  IN  /\ conn[p].open
                      /\ x = hist[p].xid
                      /\ xact[x] = [url |-> self[p].url, kind |-> "page",
                                    state |-> "in_progress"]
                      /\ PageAbsent(db, x)
                      /\ \A i \in 1..4 :
                            conn[p].pending[WriteOrder[i]] =
                               IF i <= k
                               THEN Rows(self[p].records[WriteOrder[i]],
                                         Columns[WriteOrder[i]], x)
                               ELSE {}
                      /\ hist[p].stmts = NonEmptySets(self[p].records, k)
            /\ pc[p] = "get_next_url" =>
                  /\ ~conn[p].open
                  /\ hist[p].committed[Len(hist[p].committed)] = hist[p].xid
                  /\ xact[hist[p].xid].state = "committed"
                  /\ PagePresent(db, hist[p].xid)
                  /\ hist[p].stmts = NonEmptySets(self[p].records, 4)
            /\ pc[p] = "raised" /\ hist[p].at \in InsertPoints =>
                  self[p].records[WriteOrder[InsertsDone[hist[p].at] + 1]] # <<>>

\* C23 witness: a page with shifts, breaks and awards and without allowances
\* has been committed after three statements
C23_Witness ==
    \E p \in Procs :
        /\ pc[p] = "get_next_url"
        /\ self[p].records.shifts # <<>>
        /\ self[p].records.breaks # <<>>
        /\ self[p].records.allowances = <<>>
        /\ self[p].records.award_interpretations # <<>>
        /\ hist[p].stmts = 3
        /\ db.award_interpretations # {}

(* ------------------------------- C24 --------------------------------- *)
\* the next chain leads back into itself: the last page has a next link, to
\* the page at position CycleStart
IsCyclic == Has(api[Len(api)]["links"], "next")

CycleStart == api[Len(api)]["links"]["next"]

\* some page of the cycle holds a shift
CycleHoldsShift ==
    \E i \in CycleStart..Len(api) : api[i]["results"] # <<>>

\* C24 (as claimed): a run over a cyclic chain never ends, neither by
\* returning nor by raising.
C24_CyclicNeverEnds ==
    \A p \in Procs :
        hist[p].handler = "run_etl" /\ hist[p].db0 = EmptyDb /\ IsCyclic =>
            /\ pc[p] \notin {"returned", "raised"}
            /\ hist[p].exc = "none"

\* C24 (amended): a run over a cyclic chain, started on an empty store, never
\* reaches compute_kpis and never returns.  If a page of the cycle holds a
\* shift the run fails: at the first page it comes to a second time that holds
\* one, in the shifts insert, with an IntegrityError, and never gets past that
\* insert; nothing else ends it.  If no page of the cycle holds a shift the
\* run does not end: it goes round the cycle, committing an empty transaction
\* for each page it requests.
C24_CyclicChain ==
    \A p \in Procs :
        hist[p].handler = "run_etl" /\ hist[p].db0 = EmptyDb /\ IsCyclic =>
            LET h == hist[p]
                k == Len(h.fetched)
                n == Len(api)
                again(i) == \E j \in 1..(i - 1) : h.fetched[j] = h.fetched[i]
            IN  /\ pc[p] \notin {"compute_kpis", "returned"}
                /\ h.kpi_calls = 0
                /\ pc[p] = "idle" => resp[p] = 500
                /\ h.exc # "none" =>
                      /\ CycleHoldsShift
                      /\ h.exc = "IntegrityError"
                      /\ h.at = "insert_shifts"
                      /\ again(k)
                      /\ api[h.fetched[k]]["results"] # <<>>
                /\ \A i \in 1..k :
                      again(i) /\ api[h.fetched[i]]["results"] # <<>> =>
                          /\ i = k
                          /\ Len(h.committed) = k - 1
                          /\ pc[p] \in {"connect", "process_json", "insert_shifts",
                                         "raised", "idle"}
                /\ ~CycleHoldsShift =>
                      /\ ~Ended(p)
                      /\ Len(h.committed) >= k - 1
                      /\ \A i \in 1..k : h.fetched[i] = IF i <= n THEN i ELSE n

\* C24 witness: a run has gone round a cycle of one page without a shift, at
\* the end of a chain of two pages, and has requested that page three times
C24_Witness ==
    \E p \in Procs :
        /\ IsCyclic
        /\ Len(api) = 2
        /\ CycleStart = 2
        /\ api[1]["results"] # <<>>
        /\ hist[p].fetched = <<1, 2, 2, 2>>
        /\ Len(hist[p].committed) = 4
        /\ pc[p] = "get_next_url"
        /\ db.shifts # {}

(* ------------------------------- C25 --------------------------------- *)
\* the page transactions that are open
OpenPages == {x \in DOMAIN xact : xact[x].kind = "page" /\ xact[x].state = "in_progress"}

\* the rows of table t that page i of the chain makes, as written by the
\* transaction xid
PageRows(i, t, xid) == Rows(RecordsOf(api[i])[t], Columns[t], xid)

\* C25: stop-anywhere invariant.  In every state of a run at most one page
\* transaction is open, and it is that of the page after the k pages the run
\* has committed; a page is requested only when every page requested before
\* it is committed; the committed rows of the four tables are those the store
\* held when the run began and exactly the complete record sets of the first
\* k pages of the chain, so the rows of the open or failed page are not among
\* them.
C25_StopAnywhere ==
    /\ Cardinality(OpenPages) <= 1
    /\ \A p \in Procs :
          hist[p].handler = "run_etl" =>
             LET h == hist[p]
                 k == Len(h.committed)
             IN  /\ Len(h.fetched) \in {k, k + 1}
                 /\ h.fetched = Upto(Len(h.fetched))
                 /\ pc[p] = "fetch_data" => Len(h.fetched) = k
                 /\ \A i \in 1..k :
                       xact[h.committed[i]] = [url |-> i, kind |-> "page",
                                               state |-> "committed"]
                 /\ conn[p].open =>
                       /\ OpenPages = {conn[p].xid}
                       /\ xact[conn[p].xid].url = k + 1
                       /\ Len(h.fetched) = k + 1
                 /\ ~conn[p].open => OpenPages = {}
                 /\ \A t \in IngestionTables :
                       /\ h.db0[t] \subseteq db[t]
                       /\ \A r \in db[t] \ h.db0[t] :
                             \E i \in 1..k : r.xmin = h.committed[i]
                 /\ \A i \in 1..k :
                       LET rec == RecordsOf(api[i])
                       IN  \A t \in IngestionTables :
                              RowsOf(db, t, h.committed[i])
                                 = Rows(rec[t], Columns[t], h.committed[i])

\* C25 witness: the second page of a run is being written, with its shifts
\* on the connection, on a store that began empty and holds the first page
C25_Witness ==
    \E p \in Procs :
        /\ pc[p] = "insert_breaks"
        /\ hist[p].db0 = EmptyDb
        /\ Len(hist[p].committed) = 1
        /\ conn[p].pending.shifts # {}
        /\ db.shifts # {}
        /\ db.shifts = PageRows(1, "shifts", hist[p].committed[1])

(* ------------------------------- C26 --------------------------------- *)
\* the step is the one in which clear_data deletes and commits
ClearDataStep == \E p \in Procs : pc[p] = "clear_data" /\ pc'[p] = "returned"

\* C26: lifecycle frame.  Every committed row of the four ingestion tables is
\* still there, unchanged, after any step that is not the delete of
\* clear_data: a page write, the rollback of a failed page, compute_kpis;
\* so while a run is going on the four tables hold at least the rows they
\* held when it began.
C26_LifecycleFrame ==
    /\ [][\A t \in IngestionTables : db[t] \subseteq db'[t] \/ ClearDataStep]_vars
    /\ [](\A p \in Procs : \A t \in IngestionTables :
             hist[p].handler = "run_etl" => hist[p].db0[t] \subseteq db[t])

\* C26 witness: on a store that holds the rows and the KPIs of an earlier run
\* a page has failed in an insert and has been rolled back; the rows are there
C26_Witness ==
    \E p \in Procs :
        /\ pc[p] = "raised"
        /\ hist[p].handler = "run_etl"
        /\ hist[p].at \in InsertPoints
        /\ hist[p].db0.shifts # {}
        /\ hist[p].db0.breaks # {}
        /\ hist[p].db0.kpis # {}
        /\ \A t \in IngestionTables : db[t] = hist[p].db0[t]

(* ------------------------------- C27 --------------------------------- *)
\* the records of a record set, as a set
Range(data) == {data[i] : i \in DOMAIN data}

\* C27: page-scoped record sets.  Whenever process_and_insert_data is at an
\* insert or at the commit of page k, the four record sets in the fields of
\* the processor are those derived from page k and from no other page: a
\* record of an earlier page of the run is among them only if page k yields
\* the same record itself; the rows on the connection are rows of these
\* record sets, and the rows the commit stores for the page are exactly the
\* rows of page k.
C27_PageScopedRecords ==
    \A p \in Procs :
        hist[p].handler = "run_etl" /\ Transformed(p) =>
            LET k    == Len(hist[p].processed)
                x    == hist[p].xid
                own  == RecordsOf(api[k])
            IN  /\ xact[x].url = k
                /\ self[p].url = k
                /\ \A i \in 1..(k - 1) :
                      LET earlier == RecordsOf(api[i])
                      IN  \A t \in IngestionTables :
                             Range(earlier[t]) \cap Range(self[p].records[t])
                                \subseteq Range(own[t])
                /\ \A t \in IngestionTables :
                      /\ self[p].records[t] = own[t]
                      /\ conn[p].pending[t] # {} =>
                            conn[p].pending[t] \subseteq Rows(own[t], Columns[t], x)
                      /\ pc[p] = "get_next_url" =>
                            RowsOf(db, t, x) = Rows(own[t], Columns[t], x)

\* C27 witness: the second page of a run is at its commit with rows of its
\* own in three tables, the first page having left records in the fields of
\* the processor of which none is on the connection
C27_Witness ==
    \E p \in Procs :
        /\ pc[p] = "commit"
        /\ hist[p].processed = <<1, 2>>
        /\ process_json(NoRecords, api[1]).shifts # <<>>
        /\ process_json(NoRecords, api[1]).allowances # <<>>
        /\ conn[p].pending.shifts # {}
        /\ conn[p].pending.breaks # {}
        /\ conn[p].pending.allowances = {}
        /\ \A r \in conn[p].pending.shifts : \A s \in db.shifts : r.shift_id # s.shift_id

(* ------------------------------- C28 --------------------------------- *)
\* the mapping of each record set that is renamed
Mapping == [allowances |-> AllowanceMapping, award_interpretations |-> AwardMapping]

\* the new names of a mapping
NewNames(m) == {m[k] : k \in DOMAIN m}

\* record r holds the keys of the nested record src renamed by mapping m,
\* each with the value of the source key, and every source key outside
\* exempt under its own name with its own value
Renamed(r, src, m, exempt) ==
    /\ \A k \in DOMAIN src \cap DOMAIN m : Has(r, m[k]) /\ r[m[k]] = src[k]
    /\ \A k \in DOMAIN src \ (DOMAIN m \cup exempt) : Has(r, k) /\ r[k] = src[k]

IsRerun(p) ==
    /\ hist[p].handler = "run_etl"
    /\ hist[p].prev = "run_etl"
    /\ hist[p].db0.kpis # {} \/ hist[p].db0.shifts # {}

ChainHoldsShift ==
    \E i \in DOMAIN api : Has(api[i], "results") /\ api[i]["results"] # <<>>

\* no two rows of a table have the same key
NoRowTwice(d) ==
    \A t \in IngestionTables : \A r, s \in d[t] :
        r[PrimaryKey[t]] = s[PrimaryKey[t]] => r = s

\* C29: re-run without reset.  In every state of a re-run the four ingestion
\* tables are exactly as the store held them when the re-run began, and no
\* table ever holds two rows with one key.  When the chain holds a shift the
\* re-run never reaches compute_kpis and the kpis table is as it was: the run
\* commits nothing but pages without a shift and ends with an error (answered
\* 400 or 500), which is the IntegrityError of the shifts insert of the first
\* page that holds a shift unless the environment has failed before; when the
\* chain holds no shift a re-run that returns has added its six KPI rows.
C29_RerunWithoutReset ==
    /\ NoRowTwice(db)
    /\ \A p \in Procs :
          IsRerun(p) =>
             LET h == hist[p]
             IN  /\ \A t \in IngestionTables : db[t] = h.db0[t]
                 /\ ChainHoldsShift =>
                       /\ pc[p] \notin {"compute_kpis", "returned"}
                       /\ h.kpi_calls = 0
                       /\ db.kpis = h.db0.kpis
                       /\ Ended(p) => h.exc # "none"
                       /\ pc[p] = "idle" => resp[p] \in {400, 500}
                       /\ \A i \in 1..Len(h.committed) : api[i]["results"] = <<>>
                       /\ h.exc # "none" =>
                             \/ /\ h.exc = "IntegrityError"
                                /\ h.at = "insert_shifts"
                                /\ api[Len(h.fetched)]["results"] # <<>>
                             \/ /\ faults > 0
                                /\ h.exc \in {"ValueError", "OperationalError",
                                               "UnboundLocalError"}
                 /\ ~ChainHoldsShift /\ pc[p] = "returned" =>
                       Cardinality(db.kpis) = Cardinality(h.db0.kpis) + 6

\* C29 witness: the re-run over a chain whose first page holds no shift has
\* committed that page, has failed in the shifts insert of the second page
\* and has answered 500; the tables and the KPIs are those of the first run
C29_Witness ==
    \E p \in Procs :
        /\ IsRerun(p)
        /\ pc[p] = "idle"
        /\ resp[p] = 500
        /\ hist[p].exc = "IntegrityError"
        /\ hist[p].fetched = <<1, 2>>
        /\ Len(hist[p].committed) = 1
        /\ db.shifts # {}
        /\ Cardinality(db.kpis) = 6

(* ------------------------------- C30 --------------------------------- *)
\* C30: referential integrity of the committed store.  In every state, every
\* committed break, allowance and award row has the shift_id of a committed
\* shift row, and that shift row was written by the same page transaction.
C30_ReferentialIntegrity ==
    \A t \in NestedKeys : \A r \in db[t] :
        \E s \in db.shifts : s.shift_id = r.shift_id /\ s.xmin = r.xmin

\* C30 witness: after a reset, a run has written two pages with breaks,
\* allowances and awards and has computed its KPIs
C30_Witness ==
    \E p \in Procs :
        /\ pc[p] = "returned"
        /\ hist[p].handler = "run_etl"
        /\ hist[p].prev = "clear_data"
        /\ Len(hist[p].committed) = 2
        /\ Cardinality(db.breaks) = 3
        /\ db.allowances # {}
        /\ db.award_interpretations # {}
        /\ db.kpis # {}

(* ------------------------------- C31 --------------------------------- *)
\* the page transactions of the log
PageXacts == {x \in DOMAIN xact : xact[x].kind = "page"}

\* the transactions that have a row in one of the four tables of the store
Stored == {r.xmin : r \in UNION {db[t] : t \in IngestionTables}}

\* the KPI batches committed: one for each run that returned
Successes == {x \in DOMAIN xact : xact[x].kind = "kpis" /\ xact[x].state = "committed"}

\* a committed page transaction keeps its rows in this step, and gets no more
CommittedPagesKept ==
    \/ db' = db
    \/ \A x \in PageXacts :
          xact[x].state = "committed" =>
             \A t \in IngestionTables : RowsOf(db', t, x) = RowsOf(db, t, x)

\* C31: two overlapping runs, two processes on one store and one chain.  In
\* every interleaving no table holds two rows with one key and no page has rows
\* of two transactions in the store; only committed page transactions have
\* rows in the store, a page is there with all four record sets when its
\* commit returns and no step of either run changes its rows afterwards; and
\* if the first page holds a shift at most one run returns from
\* process_all_pages and is answered 200.
C31_OverlappingRuns ==
    /\ [](/\ NoRowTwice(db)
          /\ \A x, y \in Stored : x # y => xact[x].url # xact[y].url
          /\ \A x \in Stored : xact[x].kind = "page" /\ xact[x].state = "committed"
          /\ \A p \in Procs :
                pc[p] = "get_next_url" =>
                   /\ hist[p].committed # <<>>
                   /\ PagePresent(db, hist[p].committed[Len(hist[p].committed)])
          /\ api[1]["results"] # <<>> =>
                /\ Cardinality(Successes) <= 1
                /\ Cardinality({p \in Procs : pc[p] = "returned" \/ resp[p] = 200}) <= 1)
    /\ [][CommittedPagesKept]_vars

\* C31 witness: the two runs overlap on the first page.  One process opened
\* its page transaction first, the other inserted and committed the page while
\* that transaction was open, and the first then failed on the key of the
\* shift and was answered 500; the other run goes on
C31_Witness ==
    \E p, q \in Procs :
        /\ p # q
        /\ hist[p].handler = "run_etl" /\ hist[q].handler = "run_etl"
        /\ resp[p] = 500
        /\ hist[p].exc = "IntegrityError"
        /\ hist[p].at = "insert_shifts"
        /\ hist[p].fetched = <<1>>
        /\ hist[q].committed # <<>>
        /\ hist[p].xid < hist[q].committed[1]
        /\ PagePresent(db, hist[q].committed[1])
        /\ db.shifts # {}
        /\ pc[q] \in {"fetch_data", "connect", "get_next_url"}

(* ------------------------------- C32 --------------------------------- *)
\* C32: in the standalone script a run that ends in failure computes no KPIs.
\* When the loop of process_all_pages was left because a fetch failed or
\* because process_and_insert_data raised, compute_kpis is not invoked and the
\* kpis table is as it was when the run began.
C32_FailedRunComputesNoKpis ==
    \A p \in Procs :
        hist[p].handler = "standalone" /\ hist[p].at # "none" =>
           /\ hist[p].kpi_calls = 0
           /\ db.kpis = hist[p].db0.kpis

(* ------------------------------- C33 --------------------------------- *)
\* the rows in the store that a run wrote for a page
StandalonePageRows(url, run) ==
    UNION {{r \in db[t] : xact[r.xmin].url = url /\ xact[r.xmin].run = run} :
              t \in IngestionTables}

\* C33: in the standalone script a page is written atomically.  When the
\* breaks insert of a page has failed, whether its exception was printed by
\* insert_data or raised out of it, no row of that page is in the shifts table
\* or in any other of the four tables.
C33_StandalonePageAtomic ==
    /\ \A x \in DOMAIN xact :
          xact[x].kind = "breaks" /\ xact[x].state = "aborted" =>
             StandalonePageRows(xact[x].url, xact[x].run) = {}
    /\ \A p \in Procs :
          hist[p].handler = "standalone" /\ hist[p].at = "insert_breaks" =>
             StandalonePageRows(self[p].url, runs) = {}

(* ------------------------------- C34 --------------------------------- *)
\* C34: a connection failure is reported as itself.  When psycopg2.connect
\* has failed in process_and_insert_data the store holds no row of that page
\* and the exception that reaches the caller is the OperationalError of the connect;
\* in no handler, compute_kpis and clear_data included, does the caller get
\* the UnboundLocalError of a cleanup block that reads conn or cursor.
C34_ConnectionFailureAsItself ==
    \A p \in Procs :
        /\ hist[p].at = "connect" =>
              /\ hist[p].exc = "OperationalError"
              /\ \A t \in IngestionTables : \A r \in db[t] \ hist[p].db0[t] :
                    \E i \in DOMAIN hist[p].committed : r.xmin = hist[p].committed[i]
        /\ hist[p].exc # "UnboundLocalError"

====
